---- MODULE Spec2Model ----
(***************************************************************************)
(* Runtime telemetry streaming engine of esp32-c6-agentic-firmware.        *)
(*                                                                         *)
(*  - lessons/08-uart-gdb-tandem/src/bin/memory_streamer_v2.rs: the stream *)
(*    table, the UART command drain, the command processor and the 10 ms   *)
(*    main loop (drain, sample every stream, heartbeat).                   *)
(*  - lessons-archive/08-uart-gdb-tandem/src/bin/main.rs: the typed slot   *)
(*    registry and StreamSlot::read_safe.                                  *)
(*  - lessons/07-gdb-debugging/src/cli.rs: parse_command of the terminal.  *)
(*                                                                         *)
(* 32-bit unsigned values (addresses, sizes, rates; usize is 32 bits on    *)
(* riscv32) are pairs <<hi, lo>> of 16-bit halves, value hi * 65536 + lo,  *)
(* so that the whole range [0, 2^32) is representable.  Text is a sequence *)
(* of byte values 0..255.                                                  *)
(***************************************************************************)
EXTENDS Integers, Sequences, FiniteSets, TLC

VARIABLES
    STREAMS,        \* memory_streamer_v2.rs: static mut STREAMS, index 0..15
    CMD_BUFFER,     \* the live prefix CMD_BUFFER[..CMD_LEN] of the 256-byte buffer
    CMD_LEN,        \* static mut CMD_LEN
    timestamp_ms,   \* main: let mut timestamp_ms
    pc,             \* position in main's loop: "drain", "sample", "heartbeat", "panicked"
    idx,            \* position of the for loop over STREAMS in the sampling pass
    rx,             \* UART receive side: chunks [at, bytes] not yet read
    empty_ok,       \* reads of the empty FIFO still to be answered Ok(0): [at, n]
    buffer,         \* process_uart_commands: let mut buffer = [0u8; 1]
    out,            \* every record printed so far, each stamped with its tick time
    mem_reads,      \* every (address, byte count) range read by sample_and_print
    dispatched,     \* every line handed to process_command, with its tick time
    line_overflowed,\* the input line now being received has overflowed the buffer
    horizon,        \* number of main-loop iterations observed
    SLOTS,          \* archive main.rs: static mut STREAM_SLOTS (ptr, type_id)
    slot_pc,        \* position in the archive main loop: index of the next slot
    slot_phase,     \* read_safe of that slot: "check" (not entered, or checking),
                    \* "deref" (checks passed, pointer not yet dereferenced),
                    \* "halted" (panic or trap in the dereference)
    slot_addr,      \* read_safe: let addr, the address the checks have seen
    slot_log,       \* result of every read_safe call of the current cycle
    loop_count,     \* archive main: let mut loop_count
    redirects,      \* number of pointer redirections made by the debugger so far
    cli_input,      \* lessons/07 cli.rs: the line given to parse_command, and the
                    \* tokens and white space it was put together from
    cli_cmd,        \* the Option<Command> parse_command returned for it
    cli_pc,         \* "idle", "ready" (line read, not yet parsed) or "parsed"
    cli_calls       \* number of lines read so far

vars == <<STREAMS, CMD_BUFFER, CMD_LEN, timestamp_ms, pc, idx, rx, empty_ok, buffer, out,
          mem_reads, dispatched, line_overflowed, horizon, SLOTS, slot_pc, slot_phase,
          slot_addr, slot_log, loop_count, redirects, cli_input, cli_cmd, cli_pc,
          cli_calls>>

streamerVars == <<STREAMS, CMD_BUFFER, CMD_LEN, timestamp_ms, pc, idx, rx, empty_ok,
                  buffer, out, mem_reads, dispatched, line_overflowed, horizon>>

slotVars == <<SLOTS, slot_pc, slot_phase, slot_addr, slot_log, loop_count, redirects>>

cliVars == <<cli_input, cli_cmd, cli_pc, cli_calls>>

(***************************************************************************)
(* Program constants.                                                      *)
(***************************************************************************)
MAX_STREAMS == 16

CMD_BUFFER_LEN == 256

PARTS_CAPACITY == 8

MAX_CHUNK == 64

TICK_MS == 10

HEARTBEAT_MS == 1000

(***************************************************************************)
(* 32-bit unsigned arithmetic on <<hi, lo>> pairs.                         *)
(***************************************************************************)
U32(hi, lo) == <<hi, lo>>

U32Zero == <<0, 0>>

U32Lt(a, b) == a[1] < b[1] \/ (a[1] = b[1] /\ a[2] < b[2])

U32Le(a, b) == a = b \/ U32Lt(a, b)

\* a + n for 0 <= n <= 65535, not reduced: hi may become 65536 (the value 2^32).
U32Plus(a, n) == <<a[1] + ((a[2] + n) \div 65536), (a[2] + n) % 65536>>

\* a + n as the 32-bit machine computes it (wrapping).
U32WrappingAdd(a, n) == <<U32Plus(a, n)[1] % 65536, U32Plus(a, n)[2]>>

\* a % m for m in {1, 2, 4}: decided by the low half.
U32Mod(a, m) == a[2] % m

\* ESP32-C6 SRAM window 0x4080_0000 .. 0x4088_0000
WINDOW_START == <<16512, 0>>

WINDOW_END == <<16520, 0>>

(***************************************************************************)
(* core::str::from_utf8: well-formed UTF-8 (no overlong forms, no          *)
(* surrogates, nothing above U+10FFFF).                                    *)
(***************************************************************************)
IsCont(b) == b >= 128 /\ b <= 191

\* Length of the well-formed character starting at s[i], 0 if there is none.
Utf8CharLen(s, i) ==
    LET n == Len(s)
        b == s[i]
        c(k) == IF i + k <= n THEN s[i + k] ELSE 0
    IN  IF b < 128 THEN 1
        ELSE IF b >= 194 /\ b <= 223
            THEN IF IsCont(c(1)) THEN 2 ELSE 0
        ELSE IF b = 224
            THEN IF c(1) >= 160 /\ c(1) <= 191 /\ IsCont(c(2)) THEN 3 ELSE 0
        ELSE IF (b >= 225 /\ b <= 236) \/ b = 238 \/ b = 239
            THEN IF IsCont(c(1)) /\ IsCont(c(2)) THEN 3 ELSE 0
        ELSE IF b = 237
            THEN IF c(1) >= 128 /\ c(1) <= 159 /\ IsCont(c(2)) THEN 3 ELSE 0
        ELSE IF b = 240
            THEN IF c(1) >= 144 /\ c(1) <= 191 /\ IsCont(c(2)) /\ IsCont(c(3)) THEN 4 ELSE 0
        ELSE IF b >= 241 /\ b <= 243
            THEN IF IsCont(c(1)) /\ IsCont(c(2)) /\ IsCont(c(3)) THEN 4 ELSE 0
        ELSE IF b = 244
            THEN IF c(1) >= 128 /\ c(1) <= 143 /\ IsCont(c(2)) /\ IsCont(c(3)) THEN 4 ELSE 0
        ELSE 0

\* from_utf8 scans the characters from the first byte on.  The scan accepts s
\* iff every byte that is no continuation byte starts a well-formed character
\* and every continuation byte lies inside the character of the nearest
\* preceding such byte (stated per position: lines of 256 bytes are scanned
\* without deep recursion).
from_utf8_ok(s) ==
    \A i \in 1 .. Len(s) :
        IF IsCont(s[i])
        THEN \E j \in {i - 3, i - 2, i - 1} :
                j >= 1 /\ ~IsCont(s[j]) /\ Utf8CharLen(s, j) > i - j
        ELSE Utf8CharLen(s, i) > 0

(***************************************************************************)
(* str::split_whitespace: splits at characters with the Unicode            *)
(* White_Space property and drops empty pieces.                            *)
(***************************************************************************)
\* Byte length of the White_Space character starting at s[i] of valid UTF-8,
\* 0 if the character there is not white space.
WhiteSpaceLen(s, i) ==
    LET n == Len(s)
        b == s[i]
        c(k) == IF i + k <= n THEN s[i + k] ELSE 0
    IN  IF b \in {9, 10, 11, 12, 13, 32} THEN 1
        ELSE IF b = 194 /\ c(1) \in {133, 160} THEN 2
        ELSE IF b = 225 /\ c(1) = 154 /\ c(2) = 128 THEN 3
        ELSE IF b = 226 /\ c(1) = 128 /\ c(2) \in (128..138) \cup {168, 169, 175} THEN 3
        ELSE IF b = 226 /\ c(1) = 129 /\ c(2) = 159 THEN 3
        ELSE IF b = 227 /\ c(1) = 128 /\ c(2) = 128 THEN 3
        ELSE 0

\* Position i of s lies inside a White_Space character.
InWhiteSpace(s, i) ==
    \E j \in {i - 2, i - 1, i} : j >= 1 /\ WhiteSpaceLen(s, j) > i - j

\* First positions of the maximal runs of non-white-space bytes.
TokenStarts(s) ==
    {i \in 1 .. Len(s) : ~InWhiteSpace(s, i) /\ (i = 1 \/ InWhiteSpace(s, i - 1))}

\* Last position of the run that starts at i.
TokenEnd(s, i) ==
    CHOOSE e \in i .. Len(s) :
        /\ \A k \in i .. e : ~InWhiteSpace(s, k)
        /\ (e = Len(s) \/ InWhiteSpace(s, e + 1))

\* The pieces in order of appearance: the k-th piece starts at the k-th start.
split_whitespace(s) ==
    LET starts == TokenStarts(s)
        kth(k) == CHOOSE i \in starts : Cardinality({j \in starts : j < i}) = k - 1
    IN  [k \in 1 .. Cardinality(starts) |-> SubSeq(s, kth(k), TokenEnd(s, kth(k)))]

(***************************************************************************)
(* u32::from_str_radix / str::parse::<u32> / str::parse::<usize>.          *)
(***************************************************************************)
\* char::to_digit(radix): the digit value of byte b, -1 if it is no digit.
ToDigit(b, radix) ==
    LET v == IF b >= 48 /\ b <= 57 THEN b - 48
             ELSE IF b >= 97 /\ b <= 122 THEN b - 97 + 10
             ELSE IF b >= 65 /\ b <= 90 THEN b - 65 + 10
             ELSE -1
    IN  IF v >= 0 /\ v < radix THEN v ELSE -1

ParseErr == [ok |-> FALSE, val |-> U32Zero]

RECURSIVE ParseDigits(_, _, _, _)
ParseDigits(s, i, radix, acc) ==
    IF i > Len(s) THEN [ok |-> TRUE, val |-> acc]
    ELSE LET d == ToDigit(s[i], radix)
             lo == acc[2] * radix + d
             hi == acc[1] * radix + (lo \div 65536)
         IN  IF d < 0 THEN ParseErr                     \* InvalidDigit
             ELSE IF hi > 65535 THEN ParseErr           \* PosOverflow
             ELSE ParseDigits(s, i + 1, radix, <<hi, lo % 65536>>)

from_str_radix(s, radix) ==
    IF s = <<>> THEN ParseErr                            \* Empty
    ELSE IF Len(s) = 1 /\ s[1] \in {43, 45} THEN ParseErr  \* "+" or "-" alone
    ELSE IF s[1] = 43 THEN ParseDigits(s, 2, radix, U32Zero)
    ELSE ParseDigits(s, 1, radix, U32Zero)

parse_u32(s) == from_str_radix(s, 10)

starts_with_0x(s) == Len(s) >= 2 /\ s[1] = 48 /\ s[2] = 120

\* let addr = if addr_str.starts_with("0x") { from_str_radix(&addr_str[2..], 16) }
\*            else { addr_str.parse() }
parse_addr(s) ==
    IF starts_with_0x(s)
    THEN from_str_radix(SubSeq(s, 3, Len(s)), 16)
    ELSE parse_u32(s)

(***************************************************************************)
(* Stream table: StreamConfig, should_sample, add_stream, remove_stream.   *)
(***************************************************************************)
StreamIndex == 0 .. (MAX_STREAMS - 1)

\* StreamConfig::new()
StreamConfigNew ==
    [addr |-> U32Zero, size |-> U32Zero, rate_hz |-> U32Zero,
     last_sample_ms |-> 0, enabled |-> FALSE]

\* The interval of twice the rate.
interval_ms_halved(rate_hz) == IF rate_hz[1] > 0 THEN 0 ELSE 500 \div rate_hz[2]

\* 1000 / self.rate_hz as u64, for rate_hz # 0
interval_ms(rate_hz) == IF rate_hz[1] > 0 THEN 0 ELSE 1000 \div rate_hz[2]

\* should_sample measuring the elapsed time up to the previous tick.
should_sample_previous_tick(stream, now_ms) ==
    IF ~stream.enabled \/ stream.rate_hz = U32Zero
    THEN [fire |-> FALSE, stream |-> stream, underflow |-> FALSE]
    ELSE IF now_ms - TICK_MS - stream.last_sample_ms >= interval_ms(stream.rate_hz)
    THEN [fire |-> TRUE, stream |-> [stream EXCEPT !.last_sample_ms = now_ms],
          underflow |-> FALSE]
    ELSE [fire |-> FALSE, stream |-> stream, underflow |-> FALSE]

\* should_sample evicting a due entry whose address is outside SRAM.
should_sample_evict_failing(stream, now_ms) ==
    IF ~stream.enabled \/ stream.rate_hz = U32Zero
    THEN [fire |-> FALSE, stream |-> stream, underflow |-> FALSE]
    ELSE IF now_ms - stream.last_sample_ms >= interval_ms(stream.rate_hz)
    THEN [fire |-> TRUE,
          stream |-> [stream EXCEPT !.last_sample_ms = now_ms,
                                    !.enabled = ~(\/ U32Lt(stream.addr, WINDOW_START)
                                                  \/ U32Le(WINDOW_END, stream.addr))],
          underflow |-> FALSE]
    ELSE [fire |-> FALSE, stream |-> stream, underflow |-> FALSE]

\* should_sample writing last_sample_ms also when the entry is not due.
should_sample_stamp_always(stream, now_ms) ==
    IF ~stream.enabled \/ stream.rate_hz = U32Zero
    THEN [fire |-> FALSE, stream |-> stream, underflow |-> FALSE]
    ELSE [fire |-> now_ms - stream.last_sample_ms >= interval_ms(stream.rate_hz),
          stream |-> [stream EXCEPT !.last_sample_ms = now_ms],
          underflow |-> FALSE]

\* should_sample without the `!self.enabled` test.
should_sample_ignore_enabled(stream, now_ms) ==
    IF stream.rate_hz = U32Zero
    THEN [fire |-> FALSE, stream |-> stream, underflow |-> FALSE]
    ELSE IF now_ms - stream.last_sample_ms >= interval_ms(stream.rate_hz)
    THEN [fire |-> TRUE, stream |-> [stream EXCEPT !.last_sample_ms = now_ms],
          underflow |-> FALSE]
    ELSE [fire |-> FALSE, stream |-> stream, underflow |-> FALSE]

\* should_sample with `>` for `>=`.
should_sample_strict(stream, now_ms) ==
    IF ~stream.enabled \/ stream.rate_hz = U32Zero
    THEN [fire |-> FALSE, stream |-> stream, underflow |-> FALSE]
    ELSE IF now_ms - stream.last_sample_ms > interval_ms(stream.rate_hz)
    THEN [fire |-> TRUE, stream |-> [stream EXCEPT !.last_sample_ms = now_ms],
          underflow |-> FALSE]
    ELSE [fire |-> FALSE, stream |-> stream, underflow |-> FALSE]

\* should_sample that does not store now_ms in last_sample_ms.
should_sample_no_rebase(stream, now_ms) ==
    IF ~stream.enabled \/ stream.rate_hz = U32Zero
    THEN [fire |-> FALSE, stream |-> stream, underflow |-> FALSE]
    ELSE IF now_ms - stream.last_sample_ms >= interval_ms(stream.rate_hz)
    THEN [fire |-> TRUE, stream |-> stream, underflow |-> FALSE]
    ELSE [fire |-> FALSE, stream |-> stream, underflow |-> FALSE]

\* should_sample that stores the time of the next sample instead of the time
\* of this one.
should_sample_store_deadline(stream, now_ms) ==
    IF ~stream.enabled \/ stream.rate_hz = U32Zero
    THEN [fire |-> FALSE, stream |-> stream, underflow |-> FALSE]
    ELSE IF now_ms < stream.last_sample_ms
    THEN [fire |-> TRUE, stream |-> [stream EXCEPT !.last_sample_ms = now_ms],
          underflow |-> TRUE]
    ELSE IF now_ms - stream.last_sample_ms >= interval_ms(stream.rate_hz)
    THEN [fire |-> TRUE,
          stream |-> [stream EXCEPT
                         !.last_sample_ms = now_ms + interval_ms(stream.rate_hz)],
          underflow |-> FALSE]
    ELSE [fire |-> FALSE, stream |-> stream, underflow |-> FALSE]

\* StreamConfig::should_sample(&mut self, now_ms).  fire is the returned bool,
\* stream the entry afterwards; underflow tells that now_ms - last_sample_ms was
\* computed with last_sample_ms > now_ms (the u64 subtraction overflows).
should_sample(stream, now_ms) ==
    IF ~stream.enabled \/ stream.rate_hz = U32Zero
    THEN [fire |-> FALSE, stream |-> stream, underflow |-> FALSE]
    ELSE IF now_ms < stream.last_sample_ms
    THEN [fire |-> TRUE, stream |-> [stream EXCEPT !.last_sample_ms = now_ms],
          underflow |-> TRUE]
    ELSE IF now_ms - stream.last_sample_ms >= interval_ms(stream.rate_hz)
    THEN [fire |-> TRUE, stream |-> [stream EXCEPT !.last_sample_ms = now_ms],
          underflow |-> FALSE]
    ELSE [fire |-> FALSE, stream |-> stream, underflow |-> FALSE]

\* The index the scan `for stream in STREAMS.iter_mut()` of add_stream stops at.
FreeIndexes(streams) == {i \in StreamIndex : ~streams[i].enabled}

FirstFree(streams) == CHOOSE i \in FreeIndexes(streams) : \A j \in FreeIndexes(streams) : i <= j

\* add_stream that reuses the last entry when no entry is free.
add_stream_reuse_last(streams, addr, size, rate_hz) ==
    LET i == IF FreeIndexes(streams) = {} THEN MAX_STREAMS - 1 ELSE FirstFree(streams)
    IN  [ok |-> TRUE, index |-> i,
         streams |-> [streams EXCEPT ![i] =
                         [addr |-> addr, size |-> size, rate_hz |-> rate_hz,
                          last_sample_ms |-> 0, enabled |-> TRUE]]]

\* add_stream that leaves the last_sample_ms of the entry it fills as it was.
add_stream_keep_baseline(streams, addr, size, rate_hz) ==
    IF FreeIndexes(streams) = {}
    THEN [ok |-> FALSE, index |-> -1, streams |-> streams]
    ELSE [ok |-> TRUE, index |-> FirstFree(streams),
          streams |-> [streams EXCEPT ![FirstFree(streams)] =
                          [addr |-> addr, size |-> size, rate_hz |-> rate_hz,
                           last_sample_ms |-> streams[FirstFree(streams)].last_sample_ms,
                           enabled |-> TRUE]]]

\* add_stream that refuses an address outside [WINDOW_START, WINDOW_END).
add_stream_validating(streams, addr, size, rate_hz) ==
    IF FreeIndexes(streams) = {} \/ U32Lt(addr, WINDOW_START) \/ U32Le(WINDOW_END, addr)
    THEN [ok |-> FALSE, index |-> -1, streams |-> streams]
    ELSE [ok |-> TRUE, index |-> FirstFree(streams),
          streams |-> [streams EXCEPT ![FirstFree(streams)] =
                          [addr |-> addr, size |-> size, rate_hz |-> rate_hz,
                           last_sample_ms |-> 0, enabled |-> TRUE]]]

\* add_stream(addr, size, rate_hz) -> Result<(), &'static str>
add_stream(streams, addr, size, rate_hz) ==
    IF FreeIndexes(streams) = {}
    THEN [ok |-> FALSE, index |-> -1, streams |-> streams]  \* Err("Max streams reached")
    ELSE [ok |-> TRUE, index |-> FirstFree(streams),
          streams |-> [streams EXCEPT ![FirstFree(streams)] =
                          [addr |-> addr, size |-> size, rate_hz |-> rate_hz,
                           last_sample_ms |-> 0, enabled |-> TRUE]]]

MatchIndexes(streams, addr) == {i \in StreamIndex : streams[i].enabled /\ streams[i].addr = addr}

FirstMatch(streams, addr) ==
    CHOOSE i \in MatchIndexes(streams, addr) : \A j \in MatchIndexes(streams, addr) : i <= j

\* remove_stream that reports success for a match and leaves it enabled.
remove_stream_report_only(streams, addr) ==
    IF MatchIndexes(streams, addr) = {}
    THEN [ok |-> FALSE, index |-> -1, streams |-> streams]
    ELSE [ok |-> TRUE, index |-> FirstMatch(streams, addr), streams |-> streams]

\* remove_stream that compares the address only, whatever the enabled flag.
remove_stream_any_entry(streams, addr) ==
    LET hits == {i \in StreamIndex : streams[i].addr = addr}
        first == CHOOSE i \in hits : \A j \in hits : i <= j
    IN  IF hits = {}
        THEN [ok |-> FALSE, index |-> -1, streams |-> streams]
        ELSE [ok |-> TRUE, index |-> first,
              streams |-> [streams EXCEPT ![first].enabled = FALSE]]

\* remove_stream that disables every enabled entry with the address.
remove_stream_all_matches(streams, addr) ==
    IF MatchIndexes(streams, addr) = {}
    THEN [ok |-> FALSE, index |-> -1, streams |-> streams]
    ELSE [ok |-> TRUE, index |-> FirstMatch(streams, addr),
          streams |-> [i \in StreamIndex |->
                          IF i \in MatchIndexes(streams, addr)
                          THEN [streams[i] EXCEPT !.enabled = FALSE]
                          ELSE streams[i]]]

\* remove_stream that reports success also when no entry matches.
remove_stream_always_ok(streams, addr) ==
    IF MatchIndexes(streams, addr) = {}
    THEN [ok |-> TRUE, index |-> -1, streams |-> streams]
    ELSE [ok |-> TRUE, index |-> FirstMatch(streams, addr),
          streams |-> [streams EXCEPT ![FirstMatch(streams, addr)].enabled = FALSE]]

\* remove_stream(addr) -> Result<(), &'static str>
remove_stream(streams, addr) ==
    IF MatchIndexes(streams, addr) = {}
    THEN [ok |-> FALSE, index |-> -1, streams |-> streams]  \* Err("Stream not found")
    ELSE [ok |-> TRUE, index |-> FirstMatch(streams, addr),
          streams |-> [streams EXCEPT ![FirstMatch(streams, addr)].enabled = FALSE]]

\* count_active_streams()
count_active_streams(streams) == Cardinality({i \in StreamIndex : streams[i].enabled})

(***************************************************************************)
(* Records printed with println!.  One record shape for all kinds; fields  *)
(* a kind does not print hold "" / U32Zero / 0 / <<>>.                     *)
(***************************************************************************)
Rec(kind, cmd, msg, addr, n, verb) ==
    [kind |-> kind, cmd |-> cmd, msg |-> msg, addr |-> addr, n |-> n, verb |-> verb]

\* A printed record as kept in `out`: with the tick time at which it was
\* printed and the table index it concerns (-1 if none).
Stamp(rec, now_ms, entry) ==
    [kind |-> rec.kind, cmd |-> rec.cmd, msg |-> rec.msg, addr |-> rec.addr,
     n |-> rec.n, verb |-> rec.verb, ts |-> now_ms, entry |-> entry]

RECURSIVE StampAll(_, _, _)
StampAll(recs, now_ms, entry) ==
    IF recs = <<>> THEN <<>>
    ELSE <<Stamp(Head(recs), now_ms, entry)>> \o StampAll(Tail(recs), now_ms, entry)

(***************************************************************************)
(* sample_and_print(stream): the window check on the start address, then   *)
(* min(size, 64) volatile byte reads and one DATA record.                  *)
(***************************************************************************)
InSramRange(addr) == ~(U32Lt(addr, WINDOW_START) \/ U32Le(WINDOW_END, addr))

\* HEX_CHARS: b"0123456789abcdef"
HEX_CHARS == <<48, 49, 50, 51, 52, 53, 54, 55, 56, 57, 97, 98, 99, 100, 101, 102>>

\* hex_buf[hex_len] = HEX_CHARS[byte >> 4]; hex_buf[hex_len + 1] = HEX_CHARS[byte & 0x0F]
HexOfByte(byte) == <<HEX_CHARS[(byte \div 16) + 1], HEX_CHARS[(byte % 16) + 1]>>

\* let mut hex_buf = [0u8; 128]
HEX_BUF_LEN == 128

\* The indexes of hex_buf the loop writes for n bytes: hex_len and hex_len + 1
\* with hex_len = 0, 2, .., 2 * (n - 1).
HexBufWrites(n) == {2 * i : i \in 0 .. (n - 1)} \cup {2 * i + 1 : i \in 0 .. (n - 1)}

\* The size taken as it is, up to 16 bits, without the clamp.
SampleLen_unclamped(size) == IF size[1] > 0 THEN 65535 ELSE size[2]

\* stream.size.min(64)
SampleLen(size) == IF size[1] > 0 \/ size[2] > MAX_CHUNK THEN MAX_CHUNK ELSE size[2]

\* TRUE iff every byte address addr .. addr + n - 1 lies in the window.
RangeInWindow(addr, n) ==
    /\ U32Le(WINDOW_START, addr)
    /\ U32Lt(addr, WINDOW_END)
    /\ U32Le(U32Plus(addr, n), WINDOW_END)

\* The outcomes of one call.  A read of a byte outside SRAM is a read of
\* unmapped or foreign memory through a raw pointer: it may return a byte
\* (the record is printed) or trap (the firmware stops).
sample_and_print(stream) ==
    IF ~InSramRange(stream.addr)
    THEN {[rec |-> Rec("ERROR", "", "Out of SRAM range", stream.addr, 0, <<>>),
           printed |-> TRUE, read |-> FALSE, len |-> 0, fault |-> FALSE]}
    ELSE LET n == SampleLen(stream.size)
             data == [rec |-> Rec("DATA", "", "", stream.addr, n, <<>>),
                      printed |-> TRUE, read |-> n > 0, len |-> n, fault |-> FALSE]
             trap == [rec |-> Rec("DATA", "", "", stream.addr, n, <<>>),
                      printed |-> FALSE, read |-> TRUE, len |-> n, fault |-> TRUE]
         IN  IF RangeInWindow(stream.addr, n) THEN {data} ELSE {data, trap}

(***************************************************************************)
(* process_command(cmd): the effect of one complete line on the table and  *)
(* the records it prints.  panic: collect() into heapless::Vec<&str, 8>    *)
(* panics ("Vec::from_iter overflow") on a ninth token.                    *)
(***************************************************************************)
VERB_PING == <<80, 73, 78, 71>>

VERB_STREAM == <<83, 84, 82, 69, 65, 77>>

VERB_STOP == <<83, 84, 79, 80>>

VERB_HELP == <<72, 69, 76, 80>>

VERB_LIST == <<76, 73, 83, 84>>

\* entry: the table index the command wrote, -1 if it wrote none.
Effect(streams, recs, panic, entry) ==
    [streams |-> streams, recs |-> recs, panic |-> panic, entry |-> entry]

\* "STREAM" if parts.len() >= 4
stream_command(parts, streams) ==
    LET addr == parse_addr(parts[2])
        size == parse_u32(parts[3])
        rate_hz == parse_u32(parts[4])
        res == add_stream(streams, addr.val, size.val, rate_hz.val)
    IN  IF addr.ok /\ size.ok /\ rate_hz.ok
        THEN IF res.ok
             THEN Effect(res.streams, <<Rec("OK", "STREAM", "", addr.val, 0, <<>>)>>, FALSE,
                         res.index)
             ELSE Effect(streams,
                         <<Rec("ERROR", "STREAM", "Max streams reached", U32Zero, 0, <<>>)>>,
                         FALSE, -1)
        ELSE Effect(streams,
                    <<Rec("ERROR", "STREAM", "Invalid parameters", U32Zero, 0, <<>>)>>,
                    FALSE, -1)

\* "STOP" if parts.len() >= 2
stop_command(parts, streams) ==
    LET addr == parse_addr(parts[2])
        res == remove_stream(streams, addr.val)
    IN  IF addr.ok
        THEN IF res.ok
             THEN Effect(res.streams, <<Rec("OK", "STOP", "", addr.val, 0, <<>>)>>, FALSE,
                         res.index)
             ELSE Effect(streams,
                         <<Rec("ERROR", "STOP", "Stream not found", U32Zero, 0, <<>>)>>,
                         FALSE, -1)
        ELSE Effect(streams, <<>>, FALSE, -1)

\* The LIST arm prints the addresses of counter, sensor_temp and accel_x.
LIST_VARS == 3

process_command(cmd, streams) ==
    IF ~from_utf8_ok(cmd) THEN Effect(streams, <<>>, FALSE, -1)
    ELSE LET parts == split_whitespace(cmd)
         IN  IF Len(parts) > PARTS_CAPACITY THEN Effect(streams, <<>>, TRUE, -1)
             ELSE IF parts = <<>> THEN Effect(streams, <<>>, FALSE, -1)
             ELSE IF parts[1] = VERB_PING
                 THEN Effect(streams, <<Rec("PONG", "", "", U32Zero, 0, <<>>)>>, FALSE, -1)
             ELSE IF parts[1] = VERB_STREAM /\ Len(parts) >= 4
                 THEN stream_command(parts, streams)
             ELSE IF parts[1] = VERB_STOP /\ Len(parts) >= 2
                 THEN stop_command(parts, streams)
             ELSE IF parts[1] = VERB_HELP
                 THEN Effect(streams, <<Rec("HELP", "", "", U32Zero, 0, <<>>)>>, FALSE, -1)
             ELSE IF parts[1] = VERB_LIST
                 THEN Effect(streams, <<Rec("VARS", "", "", U32Zero, LIST_VARS, <<>>)>>, FALSE, -1)
             ELSE Effect(streams,
                         <<Rec("ERROR", "", "Unknown command", U32Zero, 0, parts[1])>>,
                         FALSE, -1)

(***************************************************************************)
(* The UART receive side.  rx is the sequence of chunks still to be read;  *)
(* the bytes of a chunk are in the receive FIFO from tick time `at` on.    *)
(***************************************************************************)
Available == rx # <<>> /\ Head(rx).at <= timestamp_ms

NextByte == Head(Head(rx).bytes)

RxAfterRead ==
    IF Len(Head(rx).bytes) = 1 THEN Tail(rx)
    ELSE <<[at |-> Head(rx).at, bytes |-> Tail(Head(rx).bytes)]>> \o Tail(rx)

\* The run is observed for `horizon` iterations of main's loop.
Observed == timestamp_ms < horizon * TICK_MS

(***************************************************************************)
(* process_uart_commands: one iteration of `while uart.read(..).is_ok()`.  *)
(* uart.read(&mut buffer) has three outcomes.  With a byte in the FIFO it  *)
(* returns Ok(1) and the byte is in buffer[0].  With the FIFO empty it     *)
(* returns Ok(0) and leaves buffer[0] as it was, or it returns Err; the    *)
(* loop tests is_ok() only, so after Ok(0) the body runs once more on the  *)
(* byte left in buffer[0] (0 if nothing was read in this call), and the    *)
(* loop ends at the first Err.  empty_ok tells how many reads of the empty *)
(* FIFO get Ok(0) before the Err.                                          *)
(***************************************************************************)
\* A read of the empty FIFO at this tick time is answered Ok(0).
EmptyReadOk ==
    /\ empty_ok # <<>>
    /\ Head(empty_ok).at <= timestamp_ms

EmptyOkAfterRead ==
    IF Head(empty_ok).n = 1 THEN Tail(empty_ok)
    ELSE <<[at |-> Head(empty_ok).at, n |-> Head(empty_ok).n - 1]>> \o Tail(empty_ok)

\* The body of the while loop for `byte = buffer[0]`.
DrainByte(byte) ==
    IF CMD_LEN < CMD_BUFFER_LEN
    THEN IF byte = 10
         THEN LET eff == process_command(CMD_BUFFER, STREAMS)
              IN  /\ dispatched' = Append(dispatched,
                         [line |-> CMD_BUFFER, ts |-> timestamp_ms,
                          tail |-> line_overflowed,
                          nrecs |-> Len(eff.recs), panic |-> eff.panic])
                  /\ line_overflowed' = FALSE
                  /\ STREAMS' = eff.streams
                  /\ out' = out \o StampAll(eff.recs, timestamp_ms, eff.entry)
                  /\ IF eff.panic
                     THEN /\ pc' = "panicked"
                          /\ CMD_BUFFER' = Append(CMD_BUFFER, byte)
                          /\ CMD_LEN' = CMD_LEN + 1
                     ELSE /\ pc' = pc
                          /\ CMD_BUFFER' = <<>>
                          /\ CMD_LEN' = 0
         ELSE /\ CMD_BUFFER' = Append(CMD_BUFFER, byte)
              /\ CMD_LEN' = CMD_LEN + 1
              /\ UNCHANGED <<STREAMS, out, pc, dispatched, line_overflowed>>
    ELSE /\ out' = Append(out, Stamp(Rec("ERROR", "", "Command buffer overflow",
                                         U32Zero, 0, <<>>), timestamp_ms, -1))
         /\ CMD_BUFFER' = <<>>
         /\ CMD_LEN' = 0
         /\ line_overflowed' = (byte # 10)
         /\ UNCHANGED <<STREAMS, pc, dispatched>>

\* uart.read returns Ok(1): the next byte of the FIFO is in buffer[0].
UartReadByte ==
    /\ pc = "drain"
    /\ Observed
    /\ Available
    /\ rx' = RxAfterRead
    /\ buffer' = NextByte
    /\ DrainByte(NextByte)
    /\ UNCHANGED <<timestamp_ms, idx, empty_ok, mem_reads, horizon, slotVars, cliVars>>

\* uart.read returns Ok(0): the FIFO is empty, buffer[0] keeps its value and
\* the body of the loop runs on it.
UartReadEmpty ==
    /\ pc = "drain"
    /\ Observed
    /\ ~Available
    /\ EmptyReadOk
    /\ empty_ok' = EmptyOkAfterRead
    /\ DrainByte(buffer)
    /\ UNCHANGED <<timestamp_ms, idx, rx, buffer, mem_reads, horizon, slotVars, cliVars>>

\* uart.read returns Err: the loop ends and process_uart_commands returns.
UartReadErr ==
    /\ pc = "drain"
    /\ Observed
    /\ ~Available
    /\ ~EmptyReadOk
    /\ pc' = "sample"
    /\ idx' = 0
    /\ UNCHANGED <<STREAMS, CMD_BUFFER, CMD_LEN, timestamp_ms, rx, empty_ok, buffer, out,
                   mem_reads, dispatched, line_overflowed, horizon, slotVars, cliVars>>

(***************************************************************************)
(* main: one iteration of `for stream in STREAMS.iter_mut()`.              *)
(***************************************************************************)
AfterStream(i) == IF i = MAX_STREAMS - 1 THEN "heartbeat" ELSE "sample"

\* The iterator going through the table from its last entry to its first.
IterIndexRev(i) == MAX_STREAMS - 1 - i

\* STREAMS.iter_mut(): the table entry the i-th iteration of the pass visits.
IterIndex(i) == i

SampleStream ==
    /\ pc = "sample"
    /\ LET entry == IterIndex(idx)
           r == should_sample(STREAMS[entry], timestamp_ms)
       IN  \* now_ms - last_sample_ms with last_sample_ms > now_ms: a panic where
           \* overflow checks are compiled in, a wrapped (huge) difference otherwise.
           \E overflow_panic \in (IF r.underflow THEN {TRUE, FALSE} ELSE {FALSE}) :
              IF overflow_panic
              THEN /\ pc' = "panicked"
                   /\ UNCHANGED <<STREAMS, out, mem_reads>>
              ELSE /\ STREAMS' = [STREAMS EXCEPT ![entry] = r.stream]
                   /\ IF r.fire
                      THEN \E o \in sample_and_print(r.stream) :
                              /\ mem_reads' = IF o.read
                                              THEN mem_reads \cup {<<r.stream.addr, o.len>>}
                                              ELSE mem_reads
                              /\ out' = IF o.printed
                                        THEN Append(out, Stamp(o.rec, timestamp_ms, entry))
                                        ELSE out
                              /\ pc' = IF o.fault THEN "panicked" ELSE AfterStream(idx)
                      ELSE /\ pc' = AfterStream(idx)
                           /\ UNCHANGED <<out, mem_reads>>
    /\ idx' = idx + 1
    /\ UNCHANGED <<CMD_BUFFER, CMD_LEN, timestamp_ms, rx, empty_ok, buffer, dispatched,
                   line_overflowed, horizon, slotVars, cliVars>>

(***************************************************************************)
(* main: the heartbeat and the end of the loop body.                       *)
(***************************************************************************)
Heartbeat ==
    /\ pc = "heartbeat"
    /\ out' = IF timestamp_ms % HEARTBEAT_MS = 0
              THEN Append(out, Stamp(Rec("HEARTBEAT", "", "", U32Zero,
                                         count_active_streams(STREAMS), <<>>),
                                     timestamp_ms, -1))
              ELSE out
    /\ timestamp_ms' = timestamp_ms + TICK_MS
    /\ pc' = "drain"
    /\ buffer' = 0     \* the next call of process_uart_commands: buffer = [0u8; 1]
    /\ UNCHANGED <<STREAMS, CMD_BUFFER, CMD_LEN, idx, rx, empty_ok, mem_reads, dispatched,
                   line_overflowed, horizon, slotVars, cliVars>>

(***************************************************************************)
(* Typed slot registry (lessons-archive/08-uart-gdb-tandem main.rs).       *)
(***************************************************************************)
VarTypes == {"I32", "U32", "F32", "I16", "U16", "I8", "U8"}

\* VarType::alignment
alignment(type_id) ==
    IF type_id \in {"I32", "U32", "F32"} THEN 4
    ELSE IF type_id \in {"I16", "U16"} THEN 2
    ELSE 1

\* VarType::size
size(type_id) ==
    IF type_id \in {"I32", "U32", "F32"} THEN 4
    ELSE IF type_id \in {"I16", "U16"} THEN 2
    ELSE 1

RAM_START == <<16512, 0>>

RAM_END == <<16520, 0>>

\* read_safe with the tail check refusing a range that ends at RAM_END.
read_safe_tail_ge(slot) ==
    LET addr == slot.ptr
        required_alignment == alignment(slot.type_id)
        sz == size(slot.type_id)
    IN  IF U32Lt(addr, RAM_START) \/ U32Le(RAM_END, addr)
        THEN [result |-> "OutOfBounds", addr |-> addr, required_alignment |-> 0,
              deref |-> FALSE, width |-> 0]
        ELSE IF U32Mod(addr, required_alignment) # 0
        THEN [result |-> "Misaligned", addr |-> addr,
              required_alignment |-> required_alignment, deref |-> FALSE, width |-> 0]
        ELSE IF U32Le(RAM_END, U32WrappingAdd(addr, sz))
        THEN [result |-> "OutOfBounds", addr |-> U32WrappingAdd(addr, sz),
              required_alignment |-> 0, deref |-> FALSE, width |-> 0]
        ELSE [result |-> "Ok", addr |-> addr, required_alignment |-> 0,
              deref |-> TRUE, width |-> sz]

\* read_safe reporting the word alignment for every type.
read_safe_word_alignment(slot) ==
    LET addr == slot.ptr
        required_alignment == alignment(slot.type_id)
        sz == size(slot.type_id)
    IN  IF U32Lt(addr, RAM_START) \/ U32Le(RAM_END, addr)
        THEN [result |-> "OutOfBounds", addr |-> addr, required_alignment |-> 0,
              deref |-> FALSE, width |-> 0]
        ELSE IF U32Mod(addr, required_alignment) # 0
        THEN [result |-> "Misaligned", addr |-> addr,
              required_alignment |-> 4, deref |-> FALSE, width |-> 0]
        ELSE IF U32Lt(RAM_END, U32WrappingAdd(addr, sz))
        THEN [result |-> "OutOfBounds", addr |-> U32WrappingAdd(addr, sz),
              required_alignment |-> 0, deref |-> FALSE, width |-> 0]
        ELSE [result |-> "Ok", addr |-> addr, required_alignment |-> 0,
              deref |-> TRUE, width |-> sz]

\* read_safe with the alignment check left out.
read_safe_unaligned(slot) ==
    LET addr == slot.ptr
        sz == size(slot.type_id)
    IN  IF U32Lt(addr, RAM_START) \/ U32Le(RAM_END, addr)
        THEN [result |-> "OutOfBounds", addr |-> addr, required_alignment |-> 0,
              deref |-> FALSE, width |-> 0]
        ELSE IF U32Lt(RAM_END, U32WrappingAdd(addr, sz))
        THEN [result |-> "OutOfBounds", addr |-> U32WrappingAdd(addr, sz),
              required_alignment |-> 0, deref |-> FALSE, width |-> 0]
        ELSE [result |-> "Ok", addr |-> addr, required_alignment |-> 0,
              deref |-> TRUE, width |-> sz]

\* read_safe whose start check looks at RAM_START only, so that the tail
\* check is the only one to see an address at the top of the address space.
read_safe_tail_only(slot) ==
    LET addr == slot.ptr
        required_alignment == alignment(slot.type_id)
        sz == size(slot.type_id)
    IN  IF U32Lt(addr, RAM_START)
        THEN [result |-> "OutOfBounds", addr |-> addr, required_alignment |-> 0,
              deref |-> FALSE, width |-> 0]
        ELSE IF U32Mod(addr, required_alignment) # 0
        THEN [result |-> "Misaligned", addr |-> addr,
              required_alignment |-> required_alignment, deref |-> FALSE, width |-> 0]
        ELSE IF U32Lt(RAM_END, U32WrappingAdd(addr, sz))
        THEN [result |-> "OutOfBounds", addr |-> U32WrappingAdd(addr, sz),
              required_alignment |-> 0, deref |-> FALSE, width |-> 0]
        ELSE [result |-> "Ok", addr |-> addr, required_alignment |-> 0,
              deref |-> TRUE, width |-> sz]

\* StreamSlot::read_safe(&self).  deref tells whether the pointer was
\* dereferenced, width how many bytes that one read covers.
read_safe(slot) ==
    LET addr == slot.ptr
        required_alignment == alignment(slot.type_id)
        sz == size(slot.type_id)
    IN  IF U32Lt(addr, RAM_START) \/ U32Le(RAM_END, addr)
        THEN [result |-> "OutOfBounds", addr |-> addr, required_alignment |-> 0,
              deref |-> FALSE, width |-> 0]
        ELSE IF U32Mod(addr, required_alignment) # 0
        THEN [result |-> "Misaligned", addr |-> addr,
              required_alignment |-> required_alignment, deref |-> FALSE, width |-> 0]
        ELSE IF U32Lt(RAM_END, U32WrappingAdd(addr, sz))
        THEN [result |-> "OutOfBounds", addr |-> U32WrappingAdd(addr, sz),
              required_alignment |-> 0, deref |-> FALSE, width |-> 0]
        ELSE [result |-> "Ok", addr |-> addr, required_alignment |-> 0,
              deref |-> TRUE, width |-> sz]

SlotIndex == 0 .. 3

\* static mut STREAM_SLOTS: sensor_x, sensor_y, temperature, counter.  The
\* statics they point to are 4-byte variables the linker places in RAM.
STREAM_SLOTS_INIT ==
    [i \in SlotIndex |->
        [ptr |-> <<16512, 256 + 4 * i>>,
         type_id |-> IF i = 3 THEN "U32" ELSE "I32"]]

\* A loop over the slots that ends at the first slot whose read fails.
NextSlot_stop_on_error(i, res) == IF res.result = "Ok" THEN i + 1 ELSE 4

\* `for slot in slots`: the iterator goes on to the next slot whatever the
\* arm of the match that handled the result.
NextSlot(i, res) == i + 1

\* What the dereference of lines 143-153 can do when it loads self.ptr as p
\* after the checks have accepted the address `checked` loaded at line 120.
\* read_safe reads the static twice and nothing makes the two loads one: a
\* build that keeps both loads dereferences p, an address the checks never
\* saw.  Then a misaligned p is a panic where the pointer alignment check is
\* compiled in and a misaligned load where it is not, and a p outside RAM is
\* a load of whatever is mapped there or a load access fault.
DerefOutcomes(checked, p, type_id) ==
    IF p = checked THEN {"read"}
    ELSE IF read_safe([ptr |-> p, type_id |-> type_id]).result = "Ok" THEN {"read"}
    ELSE {"read", "halt"}

\* main: `for slot in slots` calls slot.read_safe(): `let addr = self.ptr` and
\* the three checks.  An Err is written to the record at once.
SlotCheck ==
    /\ slot_pc \in SlotIndex
    /\ slot_phase = "check"
    /\ LET res == read_safe(SLOTS[slot_pc])
       IN  IF res.result = "Ok"
           THEN /\ slot_phase' = "deref"
                /\ slot_addr' = SLOTS[slot_pc].ptr
                /\ UNCHANGED <<slot_pc, slot_log>>
           ELSE /\ slot_log' = Append(slot_log,
                                      [slot |-> slot_pc, ptr |-> SLOTS[slot_pc].ptr,
                                       type_id |-> SLOTS[slot_pc].type_id,
                                       res |-> res, read_at |-> SLOTS[slot_pc].ptr])
                /\ slot_pc' = NextSlot(slot_pc, res)
                /\ UNCHANGED <<slot_phase, slot_addr>>
    /\ UNCHANGED <<SLOTS, loop_count, redirects, streamerVars, cliVars>>

\* read_safe: the `unsafe` block dereferences self.ptr, loaded again, and the
\* value is written to the record.
SlotDeref ==
    /\ slot_pc \in SlotIndex
    /\ slot_phase = "deref"
    /\ \E o \in DerefOutcomes(slot_addr, SLOTS[slot_pc].ptr, SLOTS[slot_pc].type_id) :
          IF o = "read"
          THEN LET res == read_safe([ptr |-> slot_addr,
                                     type_id |-> SLOTS[slot_pc].type_id])
               IN  /\ slot_log' = Append(slot_log,
                                         [slot |-> slot_pc, ptr |-> slot_addr,
                                          type_id |-> SLOTS[slot_pc].type_id,
                                          res |-> res, read_at |-> SLOTS[slot_pc].ptr])
                   /\ slot_pc' = NextSlot(slot_pc, res)
                   /\ slot_phase' = "check"
                   /\ slot_addr' = U32Zero
          ELSE /\ slot_phase' = "halted"
               /\ UNCHANGED <<slot_pc, slot_addr, slot_log>>
    /\ UNCHANGED <<SLOTS, loop_count, redirects, streamerVars, cliVars>>

(***************************************************************************)
(* The debugger and the end of a streaming cycle of the slot registry.     *)
(***************************************************************************)
MaxCycles == 2

MaxRedirects == 2

\* Addresses the debugger may write into a slot's ptr: aligned and
\* misaligned addresses inside RAM, the last bytes of RAM, RAM_END, addresses
\* below and above RAM, 0 and the top of the address space.
PtrChoices ==
    {<<16512, 0>>, <<16512, 1>>, <<16512, 2>>, <<16512, 264>>,
     <<16519, 65532>>, <<16519, 65534>>, <<16519, 65535>>,
     <<16520, 0>>, <<16511, 65532>>, <<0, 0>>, <<65535, 65532>>, <<65535, 65535>>}

\* (gdb) set STREAM_SLOTS[i].ptr = a, with the core halted between two calls
\* of read_safe.
GdbRedirect ==
    /\ redirects < MaxRedirects
    /\ slot_pc \in 0 .. 4
    /\ slot_phase = "check"
    /\ \E i \in SlotIndex, a \in PtrChoices :
          SLOTS' = [SLOTS EXCEPT ![i].ptr = a]
    /\ redirects' = redirects + 1
    /\ UNCHANGED <<slot_pc, slot_phase, slot_addr, slot_log, loop_count, streamerVars,
                   cliVars>>

\* (gdb) set STREAM_SLOTS[i].ptr = a, with the core halted inside read_safe,
\* after the checks and before the dereference.
GdbRedirectMidRead ==
    /\ redirects < MaxRedirects
    /\ slot_pc \in SlotIndex
    /\ slot_phase = "deref"
    /\ \E i \in SlotIndex, a \in PtrChoices :
          SLOTS' = [SLOTS EXCEPT ![i].ptr = a]
    /\ redirects' = redirects + 1
    /\ UNCHANGED <<slot_pc, slot_phase, slot_addr, slot_log, loop_count, streamerVars,
                   cliVars>>

\* uart.write(bytes); loop_count += 1
SlotCycleEnd ==
    /\ slot_pc = 4
    /\ slot_phase = "check"
    /\ loop_count < MaxCycles
    /\ loop_count' = loop_count + 1
    /\ slot_pc' = 0
    /\ slot_log' = <<>>
    /\ UNCHANGED <<SLOTS, slot_phase, slot_addr, redirects, streamerVars, cliVars>>

(***************************************************************************)
(* Terminal command parser (lessons/07-gdb-debugging/src/cli.rs).          *)
(***************************************************************************)
MAX_ARGS == 4

\* str::trim: the text without leading and trailing White_Space characters.
trim(s) ==
    LET keep == {i \in 1 .. Len(s) : ~InWhiteSpace(s, i)}
        first == CHOOSE i \in keep : \A j \in keep : i <= j
        last == CHOOSE i \in keep : \A j \in keep : j <= i
    IN  IF keep = {} THEN <<>> ELSE SubSeq(s, first, last)

\* Option<Command>: None
CommandNone == [some |-> FALSE, name |-> <<>>, args |-> <<>>]

\* Option<Command>: Some(Command { name, args })
CommandSome(name, args) == [some |-> TRUE, name |-> name, args |-> args]

\* parse_command that keeps the last MAX_ARGS arguments instead of the first.
parse_command_keep_last(line) ==
    LET parts == split_whitespace(trim(line))
    IN  IF trim(line) = <<>> THEN CommandNone
        ELSE IF parts = <<>> THEN CommandNone
        ELSE CommandSome(parts[1],
                         IF Len(parts) - 1 <= MAX_ARGS THEN Tail(parts)
                         ELSE SubSeq(parts, Len(parts) - MAX_ARGS + 1, Len(parts)))

\* parse_command that returns None for the empty line only.
parse_command_empty_only(line) ==
    LET parts == split_whitespace(line)
    IN  IF line = <<>> THEN CommandNone
        ELSE IF parts = <<>> THEN CommandSome(<<>>, <<>>)
        ELSE CommandSome(parts[1],
                         IF Len(parts) - 1 <= MAX_ARGS THEN Tail(parts)
                         ELSE SubSeq(parts, 2, MAX_ARGS + 1))

\* parse_command(line: &str) -> Option<Command>.  args.push fails on the fifth
\* argument and the loop breaks: the first MAX_ARGS arguments are kept.
parse_command(line) ==
    LET parts == split_whitespace(trim(line))
    IN  IF trim(line) = <<>> THEN CommandNone            \* line.is_empty()
        ELSE IF parts = <<>> THEN CommandNone            \* parts.next()?
        ELSE CommandSome(parts[1],
                         IF Len(parts) - 1 <= MAX_ARGS THEN Tail(parts)
                         ELSE SubSeq(parts, 2, MAX_ARGS + 1))

\* 'help'
HELP_TOKEN == <<104, 101, 108, 112>>

\* 'led_color'
LED_COLOR_TOKEN == <<108, 101, 100, 95, 99, 111, 108, 111, 114>>

\* 'imu_stream'
IMU_STREAM_TOKEN == <<105, 109, 117, 95, 115, 116, 114, 101, 97, 109>>

\* '255'
N255_TOKEN == <<50, 53, 53>>

\* '0'
N0_TOKEN == <<48>>

\* '128'
N128_TOKEN == <<49, 50, 56>>

\* '50'
N50_TOKEN == <<53, 48>>

\* 'a\u200bb'
ZWSP_TOKEN == <<97, 226, 128, 139, 98>>

\* The line `tokens` spell with `lead` before the first, `sep` between two
\* and `trail` after the last token.
RECURSIVE JoinTokens(_, _)
JoinTokens(tokens, sep) ==
    IF tokens = <<>> THEN <<>>
    ELSE IF Len(tokens) = 1 THEN tokens[1]
    ELSE tokens[1] \o sep \o JoinTokens(Tail(tokens), sep)

CliLine(tokens, lead, sep, trail) == lead \o JoinTokens(tokens, sep) \o trail

\* Token lists: none, the lines of the unit tests, 4, 5 and 9 arguments, and a
\* token that holds U+200B (zero width space, not White_Space).
CliTokenLists ==
    { <<>>,
      <<HELP_TOKEN>>,
      <<LED_COLOR_TOKEN, N255_TOKEN, N0_TOKEN, N128_TOKEN>>,
      <<IMU_STREAM_TOKEN, N50_TOKEN>>,
      <<LED_COLOR_TOKEN, N255_TOKEN, N0_TOKEN, N128_TOKEN, N50_TOKEN>>,
      <<LED_COLOR_TOKEN, N255_TOKEN, N0_TOKEN, N128_TOKEN, N50_TOKEN, HELP_TOKEN>>,
      <<HELP_TOKEN, N0_TOKEN, N50_TOKEN, N128_TOKEN, N255_TOKEN, N0_TOKEN, N50_TOKEN,
        N128_TOKEN, N255_TOKEN, ZWSP_TOKEN>>,
      <<ZWSP_TOKEN, N50_TOKEN>> }

\* Nothing, a space, "\t\r", U+2003 (em space).
CliPads == {<<>>, <<32>>, <<9, 13>>, <<226, 128, 131>>}

\* A space, three spaces, a tab, U+00A0 (no-break space).
CliSeparators == {<<32>>, <<32, 32, 32>>, <<9>>, <<194, 160>>}

CliInputs ==
    {[tokens |-> t, line |-> CliLine(t, l, s, r)] :
        t \in CliTokenLists, l \in CliPads, s \in CliSeparators, r \in CliPads}

MaxCliCalls == 2

CliIdle ==
    /\ cli_input = [tokens |-> <<>>, line |-> <<>>]
    /\ cli_cmd = CommandNone
    /\ cli_pc = "idle"
    /\ cli_calls = 0

\* cli::parse_command(line_str)
CliParse ==
    /\ cli_pc = "ready"
    /\ cli_cmd' = parse_command(cli_input.line)
    /\ cli_pc' = "parsed"
    /\ UNCHANGED <<cli_input, cli_calls, streamerVars, slotVars>>

\* The terminal hands over the next line.
CliReadLine ==
    /\ cli_pc = "parsed"
    /\ cli_calls < MaxCliCalls
    /\ cli_input' \in CliInputs
    /\ cli_calls' = cli_calls + 1
    /\ cli_pc' = "ready"
    /\ UNCHANGED <<cli_cmd, streamerVars, slotVars>>

(***************************************************************************)
(* Input lines (bytes on the UART), each with the text it spells.          *)
(***************************************************************************)
\* 'PING\n'
LINE_PING == <<80, 73, 78, 71, 10>>

\* 'HELP\n'
LINE_HELP == <<72, 69, 76, 80, 10>>

\* 'LIST\n'
LINE_LIST == <<76, 73, 83, 84, 10>>

\* 'STREAM 0x40801000 4 10\n'
LINE_STREAM_A_10HZ == <<83, 84, 82, 69, 65, 77, 32, 48, 120, 52, 48, 56, 48, 49, 48, 48, 48, 32, 52, 32, 49, 48, 10>>

\* 'STREAM 0x40801000 4 100\n'
LINE_STREAM_A_100HZ == <<83, 84, 82, 69, 65, 77, 32, 48, 120, 52, 48, 56, 48, 49, 48, 48, 48, 32, 52, 32, 49, 48, 48, 10>>

\* 'STREAM 0x40801000 4 100 now please\n'
LINE_STREAM_A_EXTRA == <<83, 84, 82, 69, 65, 77, 32, 48, 120, 52, 48, 56, 48, 49, 48, 48, 48, 32, 52, 32, 49, 48, 48, 32, 110, 111, 119, 32, 112, 108, 101, 97, 115, 101, 10>>

\* 'STREAM 0x40802000 2 50\n'
LINE_STREAM_B_50HZ == <<83, 84, 82, 69, 65, 77, 32, 48, 120, 52, 48, 56, 48, 50, 48, 48, 48, 32, 50, 32, 53, 48, 10>>

\* 'STREAM 0x40801000 4 3\n'
LINE_STREAM_A_3HZ == <<83, 84, 82, 69, 65, 77, 32, 48, 120, 52, 48, 56, 48, 49, 48, 48, 48, 32, 52, 32, 51, 10>>

\* 'STREAM 0x40801000 4 11\n'
LINE_STREAM_A_11HZ == <<83, 84, 82, 69, 65, 77, 32, 48, 120, 52, 48, 56, 48, 49, 48, 48, 48, 32, 52, 32, 49, 49, 10>>

\* 'STREAM 0x40801000 4 30\n'
LINE_STREAM_A_30HZ == <<83, 84, 82, 69, 65, 77, 32, 48, 120, 52, 48, 56, 48, 49, 48, 48, 48, 32, 52, 32, 51, 48, 10>>

\* 'STREAM 0x40801000 4 2000\n'
LINE_STREAM_A_2000HZ == <<83, 84, 82, 69, 65, 77, 32, 48, 120, 52, 48, 56, 48, 49, 48, 48, 48, 32, 52, 32, 50, 48, 48, 48, 10>>

\* 'STREAM 0x40801000 4 0\n'
LINE_STREAM_A_0HZ == <<83, 84, 82, 69, 65, 77, 32, 48, 120, 52, 48, 56, 48, 49, 48, 48, 48, 32, 52, 32, 48, 10>>

\* 'STREAM 0x40801000 100 100\n'
LINE_STREAM_A_BIG == <<83, 84, 82, 69, 65, 77, 32, 48, 120, 52, 48, 56, 48, 49, 48, 48, 48, 32, 49, 48, 48, 32, 49, 48, 48, 10>>

\* 'STREAM 0x40801000 0 100\n'
LINE_STREAM_A_EMPTY == <<83, 84, 82, 69, 65, 77, 32, 48, 120, 52, 48, 56, 48, 49, 48, 48, 48, 32, 48, 32, 49, 48, 48, 10>>

\* 'STREAM 1082134528 4 100\n'
LINE_STREAM_DEC == <<83, 84, 82, 69, 65, 77, 32, 49, 48, 56, 50, 49, 51, 52, 53, 50, 56, 32, 52, 32, 49, 48, 48, 10>>

\* 'STREAM 0x4087fffe 4 100\n'
LINE_STREAM_TAIL == <<83, 84, 82, 69, 65, 77, 32, 48, 120, 52, 48, 56, 55, 102, 102, 102, 101, 32, 52, 32, 49, 48, 48, 10>>

\* 'STREAM 0x4087ffc1 4294967295 100\n'
LINE_STREAM_TAIL_BIG == <<83, 84, 82, 69, 65, 77, 32, 48, 120, 52, 48, 56, 55, 102, 102, 99, 49, 32, 52, 50, 57, 52, 57, 54, 55, 50, 57, 53, 32, 49, 48, 48, 10>>

\* 'STREAM 0x4087ffff 1 100\n'
LINE_STREAM_LAST == <<83, 84, 82, 69, 65, 77, 32, 48, 120, 52, 48, 56, 55, 102, 102, 102, 102, 32, 49, 32, 49, 48, 48, 10>>

\* 'STREAM 0x10 4 100\n'
LINE_STREAM_LOW == <<83, 84, 82, 69, 65, 77, 32, 48, 120, 49, 48, 32, 52, 32, 49, 48, 48, 10>>

\* 'STREAM 0x40880000 4 100\n'
LINE_STREAM_END == <<83, 84, 82, 69, 65, 77, 32, 48, 120, 52, 48, 56, 56, 48, 48, 48, 48, 32, 52, 32, 49, 48, 48, 10>>

\* 'STREAM 0xfffffffe 4 100\n'
LINE_STREAM_HIGH == <<83, 84, 82, 69, 65, 77, 32, 48, 120, 102, 102, 102, 102, 102, 102, 102, 101, 32, 52, 32, 49, 48, 48, 10>>

\* 'STREAM 0x100000000 4 100\n'
LINE_STREAM_OVERFLOW == <<83, 84, 82, 69, 65, 77, 32, 48, 120, 49, 48, 48, 48, 48, 48, 48, 48, 48, 32, 52, 32, 49, 48, 48, 10>>

\* 'STREAM 0x10 a b\n'
LINE_STREAM_BAD_ARGS == <<83, 84, 82, 69, 65, 77, 32, 48, 120, 49, 48, 32, 97, 32, 98, 10>>

\* 'STREAM 0x40801000 4\n'
LINE_STREAM_SHORT == <<83, 84, 82, 69, 65, 77, 32, 48, 120, 52, 48, 56, 48, 49, 48, 48, 48, 32, 52, 10>>

\* 'STREAM\n'
LINE_STREAM_BARE == <<83, 84, 82, 69, 65, 77, 10>>

\* 'STOP 0x40801000\n'
LINE_STOP_A == <<83, 84, 79, 80, 32, 48, 120, 52, 48, 56, 48, 49, 48, 48, 48, 10>>

\* 'STOP 0x40801000\r\n'
LINE_STOP_A_CR == <<83, 84, 79, 80, 32, 48, 120, 52, 48, 56, 48, 49, 48, 48, 48, 13, 10>>

\* 'STOP 0x40802000\n'
LINE_STOP_B == <<83, 84, 79, 80, 32, 48, 120, 52, 48, 56, 48, 50, 48, 48, 48, 10>>

\* 'STOP xyz\n'
LINE_STOP_BAD == <<83, 84, 79, 80, 32, 120, 121, 122, 10>>

\* 'STOP\n'
LINE_STOP_BARE == <<83, 84, 79, 80, 10>>

\* 'FOO bar\n'
LINE_FOO == <<70, 79, 79, 32, 98, 97, 114, 10>>

\* 'ping\n'
LINE_LOWER == <<112, 105, 110, 103, 10>>

\* '\n'
LINE_BLANK == <<10>>

\* '\r\n'
LINE_CR == <<13, 10>>

\* ' \t \r\n'
LINE_SPACES == <<32, 9, 32, 13, 10>>

\* 'PING \xff\xfe\n'
LINE_NOT_UTF8 == <<80, 73, 78, 71, 32, 255, 254, 10>>

\* 'PING\xc2\xa0x\xe2\x80\x83y\n'
LINE_NBSP == <<80, 73, 78, 71, 194, 160, 120, 226, 128, 131, 121, 10>>

\* 'PING 1 2 3 4 5 6 7\n'
LINE_8_TOKENS == <<80, 73, 78, 71, 32, 49, 32, 50, 32, 51, 32, 52, 32, 53, 32, 54, 32, 55, 10>>

\* 'PING 1 2 3 4 5 6 7 8\n'
LINE_9_TOKENS == <<80, 73, 78, 71, 32, 49, 32, 50, 32, 51, 32, 52, 32, 53, 32, 54, 32, 55, 32, 56, 10>>

\* 'STREAM 0x40801000 4 100 a b c d e\n'
LINE_STREAM_9_TOKENS == <<83, 84, 82, 69, 65, 77, 32, 48, 120, 52, 48, 56, 48, 49, 48, 48, 48, 32, 52, 32, 49, 48, 48, 32, 97, 32, 98, 32, 99, 32, 100, 32, 101, 10>>

\* n bytes 'A'
Fill(n) == [i \in 1 .. n |-> 65]

HexDigit(k) == IF k < 10 THEN 48 + k ELSE 87 + k

\* "STREAM 0x4080100<k> 4 50\n" for k in 0 .. 15: sixteen distinct addresses
LINE_STREAM_K(k) ==
    <<83, 84, 82, 69, 65, 77, 32, 48, 120, 52, 48, 56, 48, 49, 48, 48>>
        \o <<HexDigit(k)>> \o <<32, 52, 32, 53, 48, 10>>

RECURSIVE StreamLines(_, _)
StreamLines(k, n) == IF k >= n THEN <<>> ELSE LINE_STREAM_K(k) \o StreamLines(k + 1, n)

Chunk(t, bytes) == [at |-> t, bytes |-> bytes]

\* The script s with every chunk arriving d ms later.
Delay(s, d) == [i \in DOMAIN s |-> Chunk(s[i].at + d, s[i].bytes)]

(***************************************************************************)
(* Scripts: what the host sends and when.                                  *)
(***************************************************************************)
MaxTicks == 12

MaxDelayTicks == 2

RateTicks == 115

MaxRateDelayTicks == 12

BaseScripts ==
    { \* one stream, stopped three ticks later, stopped again
      <<Chunk(0, LINE_STREAM_A_100HZ), Chunk(30, LINE_STOP_A), Chunk(50, LINE_STOP_A_CR)>>,
      \* the same address registered twice, then stopped once, then once more
      <<Chunk(0, LINE_STREAM_A_100HZ \o LINE_STREAM_A_100HZ), Chunk(30, LINE_STOP_A),
        Chunk(60, LINE_STOP_A \o LINE_STOP_A)>>,
      \* the same address registered three times, then stopped twice in a row
      <<Chunk(0, LINE_STREAM_A_100HZ \o LINE_STREAM_A_100HZ \o LINE_STREAM_A_100HZ),
        Chunk(20, LINE_STOP_A \o LINE_STOP_A)>>,
      \* lines of white space only, with a stream registered
      <<Chunk(0, LINE_STREAM_B_50HZ \o LINE_CR \o LINE_BLANK \o LINE_SPACES \o LINE_PING)>>,
      \* the table listed with one stream enabled and after it was stopped
      <<Chunk(0, LINE_STREAM_A_100HZ \o LINE_LIST \o LINE_STOP_A \o LINE_LIST)>>,
      \* stop and restart in one tick
      <<Chunk(0, LINE_STREAM_A_100HZ \o LINE_STREAM_B_50HZ),
        Chunk(40, LINE_STOP_A \o LINE_STREAM_A_100HZ \o LINE_STOP_B)>>,
      \* ranges that end at, or pass, the end of SRAM
      <<Chunk(0, LINE_STREAM_TAIL)>>,
      <<Chunk(0, LINE_STREAM_LAST \o LINE_STREAM_TAIL_BIG)>>,
      \* start addresses outside SRAM, and an address that does not fit 32 bits
      <<Chunk(0, LINE_STREAM_LOW \o LINE_STREAM_END \o LINE_STREAM_HIGH
                 \o LINE_STREAM_OVERFLOW)>>,
      \* seventeen registrations, a stop of an absent address, a stop, a reuse
      <<Chunk(0, StreamLines(0, MAX_STREAMS) \o LINE_STREAM_B_50HZ),
        Chunk(20, LINE_STOP_B \o LINE_STOP_A \o LINE_STREAM_B_50HZ \o LINE_STREAM_A_10HZ)>>,
      \* stop with nothing registered
      <<Chunk(0, LINE_STOP_A \o LINE_STREAM_B_50HZ \o LINE_STOP_A)>>,
      \* buffer overflow: 256 and 257 bytes before the terminator, a short and a
      \* command-shaped rest of the line, a line longer than two buffers
      <<Chunk(0, LINE_STREAM_B_50HZ \o Fill(CMD_BUFFER_LEN) \o LINE_BLANK \o LINE_PING)>>,
      <<Chunk(0, LINE_STREAM_B_50HZ \o Fill(CMD_BUFFER_LEN + 1) \o LINE_BLANK \o LINE_PING)>>,
      <<Chunk(0, Fill(CMD_BUFFER_LEN + 1) \o LINE_PING \o LINE_HELP)>>,
      <<Chunk(0, Fill(CMD_BUFFER_LEN + 1) \o LINE_STREAM_A_100HZ \o LINE_LIST)>>,
      <<Chunk(0, Fill(CMD_BUFFER_LEN)), Chunk(20, Fill(CMD_BUFFER_LEN + 2) \o LINE_BLANK)>>,
      <<Chunk(0, Fill(CMD_BUFFER_LEN - 1) \o LINE_BLANK \o LINE_PING)>>,
      \* buffer overflow with a rest of the line of nine tokens
      <<Chunk(0, LINE_STREAM_B_50HZ \o Fill(CMD_BUFFER_LEN + 1) \o LINE_9_TOKENS
                 \o LINE_PING)>>,
      \* token counts
      <<Chunk(0, LINE_8_TOKENS \o LINE_9_TOKENS \o LINE_PING)>>,
      <<Chunk(0, LINE_STREAM_A_EXTRA)>>,
      <<Chunk(0, LINE_STREAM_A_100HZ)>>,
      <<Chunk(0, LINE_STREAM_9_TOKENS \o LINE_PING)>>,
      \* every verb, malformed arguments, unknown verbs, blank lines, bad UTF-8
      <<Chunk(0, LINE_PING \o LINE_HELP \o LINE_LIST \o LINE_FOO \o LINE_LOWER
                 \o LINE_NBSP)>>,
      <<Chunk(0, LINE_BLANK \o LINE_SPACES \o LINE_STREAM_SHORT \o LINE_STREAM_BARE
                 \o LINE_STOP_BARE \o LINE_STREAM_BAD_ARGS)>>,
      <<Chunk(0, LINE_STREAM_A_100HZ \o LINE_STOP_BAD \o LINE_PING)>>,
      <<Chunk(0, LINE_NOT_UTF8 \o LINE_PING)>>,
      \* rates and sizes
      <<Chunk(0, LINE_STREAM_A_10HZ)>>,
      <<Chunk(0, LINE_STREAM_A_3HZ \o LINE_STREAM_A_30HZ)>>,
      <<Chunk(0, LINE_STREAM_A_2000HZ \o LINE_STREAM_A_0HZ)>>,
      <<Chunk(0, LINE_STREAM_A_BIG \o LINE_STREAM_A_EMPTY \o LINE_STREAM_DEC)>>,
      \* a line that arrives in two pieces, two ticks apart
      <<Chunk(0, SubSeq(LINE_STREAM_A_100HZ, 1, 10)),
        Chunk(20, SubSeq(LINE_STREAM_A_100HZ, 11, Len(LINE_STREAM_A_100HZ)))>>,
      \* no input at all
      <<>> }

Scripts == {Delay(s, k * TICK_MS) : s \in BaseScripts, k \in 0 .. MaxDelayTicks}

\* From tick time t on, n reads of the empty FIFO are answered Ok(0).
EmptyOk(t, n) == [at |-> t, n |-> n]

\* What the host sends together with the reads of the empty FIFO that are
\* answered Ok(0); every other read of the empty FIFO is answered Err.
IdleScript(script, empties) == [rx |-> script, empty_ok |-> empties]

DelayIdle(s, d) ==
    IdleScript(Delay(s.rx, d),
               [i \in DOMAIN s.empty_ok |-> EmptyOk(s.empty_ok[i].at + d, s.empty_ok[i].n)])

\* nothing sent and enough empty reads to fill the buffer and overflow it
IDLE_BOOT == IdleScript(<<>>, <<EmptyOk(0, CMD_BUFFER_LEN + 2)>>)

\* a registration followed by empty reads in the same tick
IDLE_AFTER_STREAM == IdleScript(<<Chunk(0, LINE_STREAM_A_10HZ)>>, <<EmptyOk(0, 2)>>)

IdleScripts ==
    { IDLE_BOOT,
      IDLE_AFTER_STREAM,
      \* a command followed by empty reads in the same tick
      IdleScript(<<Chunk(0, LINE_PING)>>, <<EmptyOk(0, 3)>>),
      \* empty reads after the first piece of a line that comes in two pieces
      IdleScript(<<Chunk(0, SubSeq(LINE_STREAM_A_100HZ, 1, 10)),
                   Chunk(20, SubSeq(LINE_STREAM_A_100HZ, 11, Len(LINE_STREAM_A_100HZ)))>>,
                 <<EmptyOk(0, 2)>>),
      \* empty reads in a tick without input, between two commands
      IdleScript(<<Chunk(0, LINE_STREAM_A_100HZ), Chunk(30, LINE_STOP_A)>>,
                 <<EmptyOk(10, 2)>>) }

\* One registration, observed for more than a second.
RateScripts ==
    {Delay(<<Chunk(0, l)>>, k * TICK_MS) :
        l \in {LINE_STREAM_A_10HZ, LINE_STREAM_A_3HZ, LINE_STREAM_A_30HZ,
               LINE_STREAM_A_100HZ, LINE_STREAM_LOW, LINE_STREAM_A_11HZ},
        k \in 0 .. MaxRateDelayTicks}

\* The boot records: main prints them before it enters its loop.
BOOT_VARS == 7

BootRecords ==
    << Rec("BOOT", "", "version=2.0.0|chip=ESP32-C6|mode=bidirectional_streaming",
           U32Zero, 0, <<>>),
       Rec("STATUS", "", "UART1 configured (GPIO15=TX, GPIO23=RX)", U32Zero, 0, <<>>),
       Rec("STATUS", "", "Max streams|rate_limit=10000Hz", U32Zero, MAX_STREAMS, <<>>),
       Rec("STATUS", "", "Test variables: counter, sensor_temp, accel_x/y/z, state, timestamp",
           U32Zero, 0, <<>>),
       Rec("VARS", "", "", U32Zero, BOOT_VARS, <<>>),
       Rec("READY", "", "", U32Zero, 0, <<>>) >>

(***************************************************************************)
(* Initial states and specifications.                                      *)
(***************************************************************************)
StreamerInit ==
    /\ STREAMS = [i \in StreamIndex |-> StreamConfigNew]
    /\ CMD_BUFFER = <<>>
    /\ CMD_LEN = 0
    /\ timestamp_ms = 0
    /\ pc = "drain"
    /\ idx = 0
    /\ buffer = 0
    /\ out = StampAll(BootRecords, 0, -1)
    /\ mem_reads = {}
    /\ dispatched = <<>>
    /\ line_overflowed = FALSE

SlotsInit ==
    /\ SLOTS = STREAM_SLOTS_INIT
    /\ slot_pc = 0
    /\ slot_phase = "check"
    /\ slot_addr = U32Zero
    /\ slot_log = <<>>
    /\ loop_count = 0
    /\ redirects = 0

Init ==
    /\ StreamerInit
    /\ SlotsInit
    /\ \/ rx \in Scripts /\ empty_ok = <<>>
       \/ \E s \in IdleScripts : rx = s.rx /\ empty_ok = s.empty_ok
    /\ horizon = MaxTicks
    /\ CliIdle

Next == UartReadByte \/ UartReadEmpty \/ UartReadErr \/ SampleStream \/ Heartbeat

Spec == Init /\ [][Next]_vars

RateInit ==
    /\ StreamerInit
    /\ SlotsInit
    /\ \/ rx \in RateScripts /\ empty_ok = <<>>
       \/ rx = IDLE_AFTER_STREAM.rx /\ empty_ok = IDLE_AFTER_STREAM.empty_ok
    /\ horizon = RateTicks
    /\ CliIdle

RateSpec == RateInit /\ [][Next]_vars

\* The scripts of Spec sent around the time of the heartbeat after the boot:
\* a second of tick time, less 0 .. MaxDelayTicks ticks, after the boot.
HeartbeatTicks == 108

HeartbeatScripts ==
    {Delay(s, HEARTBEAT_MS - k * TICK_MS) : s \in BaseScripts, k \in 0 .. MaxDelayTicks}

HeartbeatIdleScripts ==
    {DelayIdle(s, HEARTBEAT_MS - k * TICK_MS) :
        s \in {IDLE_BOOT, IDLE_AFTER_STREAM}, k \in 0 .. MaxDelayTicks}

HeartbeatInit ==
    /\ StreamerInit
    /\ SlotsInit
    /\ \/ rx \in HeartbeatScripts /\ empty_ok = <<>>
       \/ \E s \in HeartbeatIdleScripts : rx = s.rx /\ empty_ok = s.empty_ok
    /\ horizon = HeartbeatTicks
    /\ CliIdle

HeartbeatSpec == HeartbeatInit /\ [][Next]_vars

SlotInit ==
    /\ StreamerInit
    /\ SlotsInit
    /\ rx = <<>>
    /\ empty_ok = <<>>
    /\ horizon = 0
    /\ CliIdle

SlotNext == SlotCheck \/ SlotDeref \/ GdbRedirect \/ GdbRedirectMidRead \/ SlotCycleEnd

SlotSpec == SlotInit /\ [][SlotNext]_vars

\* The slot registry with slots of every VarType: read_safe takes the type
\* from the slot, and the seven types give it every size and alignment.
TypeRows ==
    {<<"I32", "U32", "F32", "I16">>, <<"U16", "I8", "U8", "I32">>}

ValidateInit ==
    /\ StreamerInit
    /\ \E row \in TypeRows :
          SLOTS = [i \in SlotIndex |->
                      [ptr |-> STREAM_SLOTS_INIT[i].ptr, type_id |-> row[i + 1]]]
    /\ slot_pc = 0
    /\ slot_phase = "check"
    /\ slot_addr = U32Zero
    /\ slot_log = <<>>
    /\ loop_count = 0
    /\ redirects = 0
    /\ rx = <<>>
    /\ empty_ok = <<>>
    /\ horizon = 0
    /\ CliIdle

\* read_safe applied to slots whose pointer stays as it is while read_safe runs.
ValidateNext == SlotCheck \/ SlotDeref \/ GdbRedirect \/ SlotCycleEnd

ValidateSpec == ValidateInit /\ [][ValidateNext]_vars

\* The terminal parser on its own: lines put together from token lists and
\* white space, parsed one after another.
CliInit ==
    /\ StreamerInit
    /\ SlotsInit
    /\ rx = <<>>
    /\ empty_ok = <<>>
    /\ horizon = 0
    /\ cli_input \in CliInputs
    /\ cli_cmd = CommandNone
    /\ cli_pc = "ready"
    /\ cli_calls = 1

CliNext == CliParse \/ CliReadLine

CliSpec == CliInit /\ [][CliNext]_vars

(***************************************************************************)
(* Vocabulary of the properties.                                           *)
(***************************************************************************)
Last(q) == q[Len(q)]

Enabled(streams) == {i \in StreamIndex : streams[i].enabled}

ADDR_A == <<16512, 4096>>       \* 0x40801000

\* The step hands one more line to process_command.
Dispatches == Len(dispatched') = Len(dispatched) + 1

\* The step prints exactly one more record.
PrintsOne == Len(out') = Len(out) + 1

\* The tokens of a line that process_command gets past collect() with.
Parts(line) == split_whitespace(line)

Tokenised(line) == from_utf8_ok(line) /\ Len(Parts(line)) <= PARTS_CAPACITY

\* The line makes process_command call add_stream.
IsAddCall(line) ==
    /\ Tokenised(line)
    /\ Len(Parts(line)) >= 4
    /\ Parts(line)[1] = VERB_STREAM
    /\ parse_addr(Parts(line)[2]).ok
    /\ parse_u32(Parts(line)[3]).ok
    /\ parse_u32(Parts(line)[4]).ok

\* The line makes process_command call remove_stream.
IsRemoveCall(line) ==
    /\ Tokenised(line)
    /\ Len(Parts(line)) >= 2
    /\ Parts(line)[1] = VERB_STOP
    /\ parse_addr(Parts(line)[2]).ok

RemoveAddr(line) == parse_addr(Parts(line)[2]).val

IsSample(rec) ==
    rec.kind = "DATA" \/ (rec.kind = "ERROR" /\ rec.msg = "Out of SRAM range")

IsOk(rec, cmd) == rec.kind = "OK" /\ rec.cmd = cmd

(***************************************************************************)
(* C1: the sampling pass reads memory for a due stream only if the whole   *)
(* range address .. address + min(size, 64) lies inside                    *)
(* [0x40800000, 0x40880000); no byte outside the window is ever read, and  *)
(* every DATA record covers a range inside the window.                     *)
(* The code checks the start address only.                                 *)
(***************************************************************************)
C1_ReadsStayInWindow ==
    /\ \A r \in mem_reads : RangeInWindow(r[1], r[2])
    /\ \A k \in DOMAIN out :
          out[k].kind = "DATA" => RangeInWindow(out[k].addr, out[k].n)

(***************************************************************************)
(* C2 as claimed: read_safe dereferences the slot's pointer only if, at    *)
(* that read, the address is inside [RAM_START, RAM_END), is a multiple of *)
(* the type's alignment and address + size <= RAM_END; every read, also    *)
(* one after a redirection by the debugger, reads the full width of the    *)
(* type or reads nothing.                                                  *)
(* read_safe validates `let addr = self.ptr` and then dereferences         *)
(* self.ptr, loaded a second time: a pointer written by the debugger       *)
(* between the two loads is dereferenced without having been validated.    *)
(***************************************************************************)
Admissible(ptr, type_id) ==
    /\ U32Le(RAM_START, ptr)
    /\ U32Lt(ptr, RAM_END)
    /\ ptr[2] % alignment(type_id) = 0
    /\ U32Le(U32Plus(ptr, size(type_id)), RAM_END)

C2_ReadOnlyValidated ==
    /\ \A k \in DOMAIN slot_log :
          LET e == slot_log[k]
          IN  /\ e.res.deref => Admissible(e.read_at, e.type_id)
              /\ e.res.deref => e.res.width = size(e.type_id) /\ e.res.result = "Ok"
              /\ ~e.res.deref => e.res.width = 0 /\ e.res.result # "Ok"
    /\ slot_phase # "halted"

(***************************************************************************)
(* C3: with all 16 entries enabled a further add fails with "Max streams   *)
(* reached" and leaves the table, all five fields of all 16 entries,       *)
(* as it was.                                                              *)
(***************************************************************************)
C3_FullTableRejectsAdd ==
    [][(/\ Dispatches
        /\ IsAddCall(Last(dispatched').line)
        /\ Cardinality(Enabled(STREAMS)) = MAX_STREAMS)
       => (/\ PrintsOne
           /\ Last(out').kind = "ERROR"
           /\ Last(out').cmd = "STREAM"
           /\ Last(out').msg = "Max streams reached"
           /\ STREAMS' = STREAMS
           /\ Cardinality(Enabled(STREAMS')) = MAX_STREAMS)]_vars

C3_Witness ==
    /\ out # <<>>
    /\ Last(out).msg = "Max streams reached"
    /\ Cardinality(Enabled(STREAMS)) = MAX_STREAMS
    /\ Cardinality({STREAMS[i].addr : i \in StreamIndex}) = MAX_STREAMS

(***************************************************************************)
(* C4: remove(address) for an address no enabled entry holds answers       *)
(* "Stream not found" and changes no field of any entry, also when a       *)
(* disabled entry still carries the address.                               *)
(***************************************************************************)
C4_RemoveAbsentLeavesTable ==
    [][(/\ Dispatches
        /\ IsRemoveCall(Last(dispatched').line)
        /\ ~\E i \in StreamIndex :
               STREAMS[i].enabled /\ STREAMS[i].addr = RemoveAddr(Last(dispatched').line))
       => (/\ PrintsOne
           /\ Last(out').kind = "ERROR"
           /\ Last(out').cmd = "STOP"
           /\ Last(out').msg = "Stream not found"
           /\ STREAMS' = STREAMS)]_vars

\* A STOP of 0x40801000 was just answered "Stream not found" while a disabled
\* entry still carries that address.
C4_Witness ==
    /\ out # <<>> /\ dispatched # <<>>
    /\ Last(out).msg = "Stream not found"
    /\ IsRemoveCall(Last(dispatched).line)
    /\ RemoveAddr(Last(dispatched).line) = ADDR_A
    /\ \E i \in StreamIndex : ~STREAMS[i].enabled /\ STREAMS[i].addr = ADDR_A

(***************************************************************************)
(* C5 as claimed: once a STOP of an address is answered OK, no DATA record *)
(* for that address is printed, in that tick or later, before a new STREAM *)
(* for the address is answered OK.  (Stated of the record printed last;    *)
(* every record is the last one in the state that follows its printing.)   *)
(***************************************************************************)
OkBetween(cmd, a, p, q) ==
    \E m \in (p + 1) .. (q - 1) : IsOk(out[m], cmd) /\ out[m].addr = a

C5_NoDataAfterStop ==
    (out # <<>> /\ Last(out).kind = "DATA") =>
        \A p \in 1 .. (Len(out) - 1) :
            (IsOk(out[p], "STOP") /\ out[p].addr = Last(out).addr)
                => OkBetween("STREAM", Last(out).addr, p, Len(out))

\* Number of records OK|cmd=<cmd>|addr=<a> among the first p records.
OkCount(cmd, a, p) == Cardinality({k \in 1 .. p : IsOk(out[k], cmd) /\ out[k].addr = a})

(***************************************************************************)
(* C5 amended: once a STOP of an address is answered OK and as many STOP   *)
(* as STREAM commands for that address have been answered OK (no other     *)
(* enabled entry holds the address), no DATA record for that address is    *)
(* printed, in that tick or later, before a new STREAM for the address is  *)
(* answered OK.                                                            *)
(***************************************************************************)
C5_NoDataAfterLastStop ==
    (out # <<>> /\ Last(out).kind = "DATA") =>
        \A p \in 1 .. (Len(out) - 1) :
            (/\ IsOk(out[p], "STOP")
             /\ out[p].addr = Last(out).addr
             /\ OkCount("STREAM", out[p].addr, p) = OkCount("STOP", out[p].addr, p))
                => OkBetween("STREAM", Last(out).addr, p, Len(out))

\* 0x40801000 was sampled, then stopped with no other registration of it
\* left, and two further ticks have run their sampling pass.
C5_Witness ==
    \E p \in DOMAIN out :
        /\ IsOk(out[p], "STOP") /\ out[p].addr = ADDR_A
        /\ OkCount("STREAM", ADDR_A, p) = OkCount("STOP", ADDR_A, p)
        /\ \E q \in 1 .. (p - 1) : out[q].kind = "DATA" /\ out[q].addr = ADDR_A
        /\ ~\E m \in (p + 1) .. Len(out) : IsOk(out[m], "STREAM") /\ out[m].addr = ADDR_A
        /\ timestamp_ms >= out[p].ts + 2 * TICK_MS

(***************************************************************************)
(* C6: after `STREAM 0x40801000 4 10` is answered OK at tick time T, the   *)
(* 100 ticks that follow (T + 10 .. T + 1000) print exactly 10 DATA        *)
(* records for 0x40801000, whatever T is.                                  *)
(***************************************************************************)
DataIn(a, from, to) ==
    {q \in DOMAIN out : out[q].kind = "DATA" /\ out[q].addr = a
                        /\ out[q].ts >= from /\ out[q].ts <= to}

C6_TenRecordsPerSecond ==
    \A p \in DOMAIN out :
        (/\ IsOk(out[p], "STREAM")
         /\ out[p].addr = ADDR_A
         /\ STREAMS[out[p].entry].rate_hz = <<0, 10>>
         /\ pc = "heartbeat"
         /\ timestamp_ms = out[p].ts + 100 * TICK_MS)
            => Cardinality(DataIn(ADDR_A, out[p].ts + TICK_MS, out[p].ts + 100 * TICK_MS)) = 10

\* The command was accepted at T = 120 ms and the 100th following tick has
\* run its sampling pass.
C6_Witness ==
    \E p \in DOMAIN out :
        /\ IsOk(out[p], "STREAM")
        /\ out[p].addr = ADDR_A
        /\ STREAMS[out[p].entry].rate_hz = <<0, 10>>
        /\ out[p].ts = 12 * TICK_MS
        /\ pc = "heartbeat"
        /\ timestamp_ms = out[p].ts + 100 * TICK_MS

(***************************************************************************)
(* C7: for an entry that stays registered, two calls of should_sample that *)
(* return true (each prints one DATA or "Out of SRAM range" record) are at *)
(* least floor(1000 / rate_hz) ms apart.                                   *)
(***************************************************************************)
\* No add has written table entry e after record p.
StaysRegistered(e, p) ==
    ~\E m \in (p + 1) .. Len(out) : IsOk(out[m], "STREAM") /\ out[m].entry = e

C7_TrueCallsIntervalApart ==
    (out # <<>> /\ IsSample(Last(out))) =>
        \A p \in 1 .. (Len(out) - 1) :
            (/\ IsSample(out[p])
             /\ out[p].entry = Last(out).entry
             /\ StaysRegistered(Last(out).entry, p)
             /\ STREAMS[Last(out).entry].rate_hz[1] = 0)
                => Last(out).ts - out[p].ts >= 1000 \div STREAMS[Last(out).entry].rate_hz[2]

\* Two consecutive true calls for a 30 Hz entry, 40 ms apart (interval 33 ms).
C7_Witness ==
    /\ out # <<>> /\ IsSample(Last(out))
    /\ STREAMS[Last(out).entry].rate_hz = <<0, 30>>
    /\ \E p \in 1 .. (Len(out) - 1) :
          /\ IsSample(out[p])
          /\ out[p].entry = Last(out).entry
          /\ Last(out).ts - out[p].ts = 4 * TICK_MS

(***************************************************************************)
(* C8 as claimed: when the 256-byte line buffer fills before a terminator  *)
(* arrives, no part of the unterminated line is handed to the command      *)
(* processor, the rest of the line up to its terminator included.          *)
(* The code drops the byte that overflows and resets the buffer; the       *)
(* bytes that follow, up to the terminator, are dispatched as a line.      *)
(***************************************************************************)
C8_OverflowDropsWholeLine == \A k \in DOMAIN dispatched : ~dispatched[k].tail

(***************************************************************************)
(* C9 as claimed: process_command returns without panicking for every      *)
(* line, lines of more than 8 tokens included.                             *)
(* collect() into heapless::Vec<&str, 8> panics on the ninth token.        *)
(***************************************************************************)
C9_CommandProcessingTotal == \A k \in DOMAIN dispatched : ~dispatched[k].panic

(***************************************************************************)
(* C10 as claimed: every complete non-blank line that process_command      *)
(* returns from prints exactly one response record.                        *)
(* STOP with an unparsable address and lines that are not UTF-8 print      *)
(* nothing.                                                                *)
(***************************************************************************)
NonBlank(line) == \E i \in DOMAIN line : ~InWhiteSpace(line, i)

C10_OneResponsePerLine ==
    \A k \in DOMAIN dispatched :
        (NonBlank(dispatched[k].line) /\ ~dispatched[k].panic) => dispatched[k].nrecs = 1

(***************************************************************************)
(* C11 as claimed: a line that fails to parse (an unknown verb, or STREAM  *)
(* or STOP with missing or malformed arguments) prints an ERROR record and *)
(* leaves every entry of the table unchanged.                              *)
(* The table is left alone, but STOP with an unparsable address prints     *)
(* nothing (the defect of C10).                                            *)
(***************************************************************************)
KnownVerbs == {VERB_PING, VERB_STREAM, VERB_STOP, VERB_HELP, VERB_LIST}

FailsToParse(line) ==
    /\ Tokenised(line)
    /\ Parts(line) # <<>>
    /\ \/ Parts(line)[1] \notin KnownVerbs
       \/ Parts(line)[1] = VERB_STREAM /\ ~IsAddCall(line)
       \/ Parts(line)[1] = VERB_STOP /\ ~IsRemoveCall(line)

C11_FailedParseAnswersError ==
    [][(Dispatches /\ FailsToParse(Last(dispatched').line))
       => (/\ PrintsOne
           /\ Last(out').kind = "ERROR"
           /\ STREAMS' = STREAMS)]_vars

(***************************************************************************)
(* C12 as claimed: in every reachable state every entry with enabled =     *)
(* true has rate_hz > 0.                                                   *)
(* add_stream stores any rate: `STREAM <addr> <size> 0` enables an entry   *)
(* with rate_hz = 0.                                                       *)
(***************************************************************************)
C12_EnabledHasPositiveRate ==
    \A i \in StreamIndex : STREAMS[i].enabled => STREAMS[i].rate_hz # U32Zero

(***************************************************************************)
(* C13: for every slot type (sizes and alignments 1, 2 and 4) and every    *)
(* address with address >= RAM_START, address + size <= RAM_END and        *)
(* address % alignment = 0, read_safe succeeds: it returns the value read  *)
(* at the address, not an error.                                           *)
(***************************************************************************)
C13_AdmissibleReadSucceeds ==
    \A k \in DOMAIN slot_log :
        LET e == slot_log[k]
        IN  Admissible(e.ptr, e.type_id)
                => e.res.result = "Ok" /\ e.res.deref /\ e.res.addr = e.ptr

\* The last two bytes of RAM read as a 16-bit value and the last byte of RAM
\* read as an 8-bit value, in one cycle.
C13_Witness ==
    \E j, k \in DOMAIN slot_log :
        /\ slot_log[j].ptr = <<16519, 65534>>
        /\ size(slot_log[j].type_id) = 2
        /\ slot_log[j].res.result = "Ok"
        /\ slot_log[k].ptr = <<16519, 65535>>
        /\ size(slot_log[k].type_id) = 1
        /\ slot_log[k].res.result = "Ok"

(***************************************************************************)
(* C14 as claimed: for every address and size with address < RAM_START,    *)
(* address >= RAM_END or address + size > RAM_END, read_safe returns       *)
(* OutOfBounds whatever the alignment.  read_safe tests the start of the   *)
(* range, then the alignment, then the tail, so a misaligned address       *)
(* inside RAM whose tail passes RAM_END is reported as Misaligned.         *)
(***************************************************************************)
StartOutside(ptr) == U32Lt(ptr, RAM_START) \/ U32Le(RAM_END, ptr)

TailOutside(ptr, type_id) ==
    ~StartOutside(ptr) /\ ~U32Le(U32Plus(ptr, size(type_id)), RAM_END)

Aligned(ptr, type_id) == ptr[2] % alignment(type_id) = 0

C14_BoundsBeforeAlignment ==
    \A k \in DOMAIN slot_log :
        LET e == slot_log[k]
        IN  (StartOutside(e.ptr) \/ TailOutside(e.ptr, e.type_id))
                => e.res.result = "OutOfBounds"

(***************************************************************************)
(* C15: for every address whose range [address, address + size) lies       *)
(* inside RAM but with address % alignment # 0, read_safe returns          *)
(* Misaligned carrying that address and the alignment of the slot's type.  *)
(***************************************************************************)
RangeInside(ptr, type_id) ==
    /\ ~StartOutside(ptr)
    /\ U32Le(U32Plus(ptr, size(type_id)), RAM_END)

C15_MisalignedReported ==
    \A k \in DOMAIN slot_log :
        LET e == slot_log[k]
        IN  (RangeInside(e.ptr, e.type_id) /\ ~Aligned(e.ptr, e.type_id))
                => /\ e.res.result = "Misaligned"
                   /\ e.res.addr = e.ptr
                   /\ e.res.required_alignment = alignment(e.type_id)
                   /\ ~e.res.deref

\* 0x40800001 read as a 4-byte value and as a 2-byte value, in one cycle.
C15_Witness ==
    \E j, k \in DOMAIN slot_log :
        /\ slot_log[j].ptr = <<16512, 1>>
        /\ slot_log[j].res.result = "Misaligned"
        /\ slot_log[j].res.required_alignment = 4
        /\ slot_log[k].ptr = <<16512, 1>>
        /\ slot_log[k].res.result = "Misaligned"
        /\ slot_log[k].res.required_alignment = 2

(***************************************************************************)
(* C16 as claimed: in one tick each table entry produces at most one       *)
(* record (DATA or ERROR), and exactly one if it is due at that tick, also *)
(* when more than one interval has elapsed since its last sample or when   *)
(* its interval is shorter than the tick period.                           *)
(* The pass visits each entry once in a tick, so no entry prints twice;    *)
(* but a due entry whose range passes the end of SRAM is read (C1) and the *)
(* read may trap, which leaves the entry without a record.                 *)
(***************************************************************************)
Due(stream, now_ms) ==
    /\ stream.enabled
    /\ stream.rate_hz # U32Zero
    /\ now_ms - stream.last_sample_ms >= interval_ms(stream.rate_hz)

\* The step is the visit of one table entry by the sampling pass.
VisitsEntry == pc = "sample" /\ idx' = idx + 1

C16_OneRecordPerDueEntry ==
    [][VisitsEntry
       => IF Due(STREAMS[idx], timestamp_ms)
          THEN /\ PrintsOne
               /\ IsSample(Last(out'))
               /\ Last(out').entry = idx
               /\ Last(out').ts = timestamp_ms
          ELSE out' = out]_vars

(***************************************************************************)
(* C17: within one tick every complete command line drained in that tick   *)
(* is applied to the table before that tick's sampling pass starts.  Lines *)
(* are dispatched only while the UART is drained, the pass starts only     *)
(* when nothing that has arrived is left unread, and the visit of an entry *)
(* sees what the commands of the same tick did to it: an entry added in    *)
(* this tick is sampled in this tick if its baseline (last_sample_ms = 0)  *)
(* makes it due, and an entry removed in this tick is not sampled in it.   *)
(* Sampled means that sample_and_print ran for the entry (last_sample_ms   *)
(* becomes the tick time); it prints its record unless the read traps.     *)
(***************************************************************************)
\* Positions in out of the OK answers of this tick's commands about entry e.
CommandsOfTick(e) ==
    {k \in DOMAIN out : /\ out[k].kind = "OK"
                        /\ out[k].entry = e
                        /\ out[k].ts = timestamp_ms}

LastCommandOfTick(e) ==
    out[CHOOSE k \in CommandsOfTick(e) : \A j \in CommandsOfTick(e) : j <= k]

BaselineDue(stream) ==
    stream.rate_hz # U32Zero /\ timestamp_ms >= interval_ms(stream.rate_hz)

C17_CommandsBeforeSampling ==
    [][/\ Dispatches => pc = "drain"
       /\ (pc = "drain" /\ pc' = "sample") => ~Available
       /\ (VisitsEntry /\ CommandsOfTick(idx) # {})
          => IF LastCommandOfTick(idx).cmd = "STREAM"
             THEN BaselineDue(STREAMS[idx])
                  => /\ STREAMS'[idx].last_sample_ms = timestamp_ms
                     /\ pc' # "panicked"
                        => /\ PrintsOne
                           /\ IsSample(Last(out'))
                           /\ Last(out').entry = idx
                           /\ Last(out').ts = timestamp_ms
             ELSE /\ out' = out
                  /\ STREAMS' = STREAMS
                  /\ mem_reads' = mem_reads]_vars

\* The pass of a tick is over.  An entry was added in an earlier tick, after
\* tick 0, and sampled in the tick that added it; it was sampled in the tick
\* before this one, removed in this tick and not sampled in this tick.
C17_Witness ==
    /\ pc = "heartbeat"
    /\ \E i, j, p, q \in DOMAIN out :
          /\ i < j /\ j <= p /\ p < q
          /\ IsOk(out[i], "STREAM") /\ out[i].ts > 0
          /\ IsSample(out[j]) /\ out[j].entry = out[i].entry /\ out[j].ts = out[i].ts
          /\ IsSample(out[p]) /\ out[p].entry = out[i].entry
          /\ out[p].ts = timestamp_ms - TICK_MS
          /\ IsOk(out[q], "STOP") /\ out[q].entry = out[i].entry
          /\ out[q].ts = timestamp_ms
          /\ \A k \in DOMAIN out :
                IsSample(out[k]) => out[k].ts < timestamp_ms

(***************************************************************************)
(* C18: when several entries are due in the same tick their records are    *)
(* emitted in ascending table-index order within that tick: a sample       *)
(* record is preceded, among the sample records of its tick, only by       *)
(* records of entries with a lower index.  The order of the records of a   *)
(* tick is thus a function of the table alone, the same in every run with  *)
(* the same command and tick history.                                      *)
(***************************************************************************)
C18_AscendingIndexOrder ==
    (out # <<>> /\ IsSample(Last(out)))
        => \A k \in 1 .. Len(out) - 1 :
              (IsSample(out[k]) /\ out[k].ts = Last(out).ts)
                  => out[k].entry < Last(out).entry

\* Three entries printed their records in one tick.
C18_Witness ==
    \E i, j, k \in DOMAIN out :
        /\ i < j /\ j < k
        /\ IsSample(out[i]) /\ IsSample(out[j]) /\ IsSample(out[k])
        /\ out[i].ts = out[k].ts /\ out[j].ts = out[k].ts
        /\ out[i].entry < out[j].entry /\ out[j].entry < out[k].entry

(***************************************************************************)
(* C19: an entry's enabled flag changes false -> true only in a successful *)
(* add (a line answered OK|cmd=STREAM for that entry) and true -> false    *)
(* only in a successful remove (a line answered OK|cmd=STOP for that       *)
(* entry, which changes nothing else); no other step, be it a sample that  *)
(* yields DATA or ERROR, a heartbeat, a failed command or a buffer         *)
(* overflow, changes the enabled, addr, size or rate_hz of any entry.      *)
(***************************************************************************)
Config(stream) == <<stream.addr, stream.size, stream.rate_hz, stream.enabled>>

C19_OnlyCommandsChangeEntries ==
    [][\A i \in StreamIndex :
          Config(STREAMS'[i]) # Config(STREAMS[i])
              => /\ Dispatches
                 /\ PrintsOne
                 /\ Last(out').entry = i
                 /\ \/ /\ ~STREAMS[i].enabled
                       /\ STREAMS'[i].enabled
                       /\ IsOk(Last(out'), "STREAM")
                    \/ /\ STREAMS[i].enabled
                       /\ STREAMS'[i] = [STREAMS[i] EXCEPT !.enabled = FALSE]
                       /\ IsOk(Last(out'), "STOP")]_vars

\* An entry whose address is outside SRAM has answered two samples with ERROR
\* and is still enabled.
C19_Witness ==
    \E j, k \in DOMAIN out :
        /\ j < k
        /\ out[j].kind = "ERROR" /\ out[j].msg = "Out of SRAM range"
        /\ out[k].kind = "ERROR" /\ out[k].msg = "Out of SRAM range"
        /\ out[j].entry = out[k].entry
        /\ out[j].ts < out[k].ts
        /\ STREAMS[out[k].entry].enabled
        /\ ~InSramRange(STREAMS[out[k].entry].addr)

(***************************************************************************)
(* C20 as claimed: exactly one HEARTBEAT record is emitted per 1000 ms of  *)
(* elapsed tick time (every 100th tick), whatever the table holds and      *)
(* whatever commands arrive, and its active field is the number of enabled *)
(* entries at the moment of emission, after the commands of that tick.     *)
(* The heartbeat is the last step of an iteration of main's loop: a line   *)
(* of nine tokens (C9), or a sample that traps (C1), in the tick that owes *)
(* the heartbeat stops the firmware before it is printed.                  *)
(***************************************************************************)
HeartbeatsAt(m) == {k \in DOMAIN out : out[k].kind = "HEARTBEAT" /\ out[k].ts = m}

\* Tick times at which a heartbeat is owed and, the firmware running on,
\* has been printed: the multiples of 1000 ms the tick time has passed, and
\* the one it stands at when the firmware has stopped.
HeartbeatOwed(m) ==
    /\ m % HEARTBEAT_MS = 0
    /\ \/ m < timestamp_ms
       \/ m = timestamp_ms /\ pc = "panicked"

C20_HeartbeatEverySecond ==
    /\ \A t \in 0 .. (timestamp_ms \div TICK_MS) :
          LET m == t * TICK_MS
          IN  /\ HeartbeatOwed(m) => Cardinality(HeartbeatsAt(m)) = 1
              /\ m % HEARTBEAT_MS # 0 => HeartbeatsAt(m) = {}
    /\ (out # <<>> /\ Last(out).kind = "HEARTBEAT" /\ pc = "drain")
          => Last(out).n = Cardinality(Enabled(STREAMS))

(***************************************************************************)
(* C21 as claimed: a successful add sets the new entry's last_sample_ms to *)
(* the tick time at which the add is applied, so a stream registered at    *)
(* time t gets its first sample no earlier than t + 1000 / rate_hz.        *)
(* add_stream has no access to the tick time and writes last_sample_ms =   *)
(* 0: a stream registered at t >= 1000 / rate_hz is sampled in tick t.     *)
(***************************************************************************)
\* Positions in out of the OK answers to the STREAM commands that filled entry e.
AddsOf(e) == {k \in DOMAIN out : IsOk(out[k], "STREAM") /\ out[k].entry = e}

LastAddOf(e) == out[CHOOSE k \in AddsOf(e) : \A j \in AddsOf(e) : j <= k]

C21_AddBaselineIsTickTime ==
    [][/\ (Dispatches /\ PrintsOne /\ IsOk(Last(out'), "STREAM"))
          => STREAMS'[Last(out').entry].last_sample_ms = timestamp_ms
       /\ (VisitsEntry /\ PrintsOne /\ IsSample(Last(out')) /\ AddsOf(idx) # {})
          => timestamp_ms >= LastAddOf(idx).ts + interval_ms(STREAMS[idx].rate_hz)]_vars

(***************************************************************************)
(* C22: should_sample(entry, now) returns true exactly when the entry is   *)
(* enabled, rate_hz > 0 and now - last_sample_ms >= 1000 / rate_hz         *)
(* (integer division); when it returns true it sets last_sample_ms = now   *)
(* and changes no other field; when it returns false, also for a disabled  *)
(* entry or one with rate_hz = 0, it changes no field.  Stated for every   *)
(* entry of the table at the tick time of every reachable state.           *)
(***************************************************************************)
C22_DueExactly ==
    \A i \in StreamIndex :
        LET r == should_sample(STREAMS[i], timestamp_ms)
        IN  /\ r.fire <=> Due(STREAMS[i], timestamp_ms)
            /\ r.fire => r.stream = [STREAMS[i] EXCEPT !.last_sample_ms = timestamp_ms]
            /\ ~r.fire => r.stream = STREAMS[i]
            /\ ~r.underflow

\* The pass is about to start with two enabled entries of rate > 0 that have
\* been sampled before: one is due, the other is not.
C22_Witness ==
    /\ pc = "sample"
    /\ idx = 0
    /\ \E i, j \in StreamIndex :
          /\ STREAMS[i].last_sample_ms > 0
          /\ Due(STREAMS[i], timestamp_ms)
          /\ should_sample(STREAMS[i], timestamp_ms).fire
          /\ STREAMS[j].enabled
          /\ STREAMS[j].rate_hz # U32Zero
          /\ STREAMS[j].last_sample_ms > 0
          /\ ~should_sample(STREAMS[j], timestamp_ms).fire

(***************************************************************************)
(* C23 as claimed: if two or more sampling intervals have elapsed since an *)
(* entry's last_sample_ms, the entry emits one record at the next tick and *)
(* its last_sample_ms becomes that tick's time, not last_sample_ms +       *)
(* interval; the next record for it comes no earlier than that time +      *)
(* interval, so no compensating burst is emitted.  In this program         *)
(* intervals are missed by an entry registered late (its baseline is 0)    *)
(* and by an entry whose interval is shorter than half a tick.             *)
(* should_sample rebases as claimed; the record is missing when the read   *)
(* of sample_and_print passes RAM_END and traps (C1).                      *)
(***************************************************************************)
MissedIntervals(stream, now_ms) ==
    /\ stream.enabled
    /\ stream.rate_hz # U32Zero
    /\ now_ms - stream.last_sample_ms >= 2 * interval_ms(stream.rate_hz)

\* Positions in out of the sample records of entry e since it was last added.
SamplesSinceAdd(e) ==
    {k \in DOMAIN out : /\ IsSample(out[k])
                        /\ out[k].entry = e
                        /\ StaysRegistered(e, k)}

C23_NoCompensatingBurst ==
    [][/\ (VisitsEntry /\ MissedIntervals(STREAMS[idx], timestamp_ms))
          => /\ PrintsOne
             /\ IsSample(Last(out'))
             /\ Last(out').entry = idx
             /\ STREAMS'[idx].last_sample_ms = timestamp_ms
       /\ (VisitsEntry /\ out' # out)
          => \A k \in SamplesSinceAdd(idx) :
                timestamp_ms >= out[k].ts + interval_ms(STREAMS[idx].rate_hz)]_vars

(***************************************************************************)
(* C24 as claimed: for every enabled stream with rate_hz = r > 0,          *)
(* including rates that do not divide 1000, any span of 1000 ms of         *)
(* consecutive 10 ms ticks (100 ticks) contains at most r records for that *)
(* entry.  Stated for the 100 ticks that end with the entry's latest       *)
(* record.                                                                 *)
(***************************************************************************)
\* The records of entry e, since it was added, in the 100 ticks up to tick time t.
RecordsInSecond(e, t) ==
    {k \in SamplesSinceAdd(e) : out[k].ts > t - 100 * TICK_MS /\ out[k].ts <= t}

C24_AtMostRatePerSecond ==
    (out # <<>> /\ IsSample(Last(out)) /\ STREAMS[Last(out).entry].rate_hz[1] = 0)
        => Cardinality(RecordsInSecond(Last(out).entry, Last(out).ts))
              <= STREAMS[Last(out).entry].rate_hz[2]

(***************************************************************************)
(* C24 as the code has it: the interval is 1000 / r truncated to whole     *)
(* milliseconds and an entry is looked at once per tick, so the records of *)
(* a stream that stays registered are k = max(1, ceil((1000 / r) / 10))    *)
(* ticks apart and 100 consecutive ticks contain at most ceil(100 / k) of  *)
(* them.  That is r for r = 10 and less than r for r = 3 or 30, but 12     *)
(* for r = 11 (interval 90 ms).                                            *)
(***************************************************************************)
TicksPerRecord(r) ==
    IF 1000 \div r = 0 THEN 1 ELSE ((1000 \div r) + TICK_MS - 1) \div TICK_MS

MaxRecordsPerSecond(r) == (100 + TicksPerRecord(r) - 1) \div TicksPerRecord(r)

C24_AtMostTruncatedRatePerSecond ==
    (out # <<>> /\ IsSample(Last(out)) /\ STREAMS[Last(out).entry].rate_hz[1] = 0)
        => Cardinality(RecordsInSecond(Last(out).entry, Last(out).ts))
              <= MaxRecordsPerSecond(STREAMS[Last(out).entry].rate_hz[2])

\* An 11 Hz stream has printed 12 records in 100 consecutive ticks.
C24_Witness ==
    /\ out # <<>> /\ IsSample(Last(out))
    /\ STREAMS[Last(out).entry].rate_hz = <<0, 11>>
    /\ Cardinality(RecordsInSecond(Last(out).entry, Last(out).ts)) = 12

(***************************************************************************)
(* C25: a successful add writes the lowest-index entry with enabled =      *)
(* false and only that entry: it overwrites all five fields (addr, size    *)
(* and rate_hz with the arguments of the command, last_sample_ms with the  *)
(* baseline 0, enabled with true), so a reused entry carries no state of   *)
(* its previous occupant, and every other entry is unchanged.              *)
(***************************************************************************)
LowestDisabled(streams) ==
    CHOOSE i \in StreamIndex :
        ~streams[i].enabled /\ \A j \in 0 .. (i - 1) : streams[j].enabled

C25_AddWritesLowestFreeEntryOnly ==
    [][(/\ Dispatches
        /\ IsAddCall(Last(dispatched').line)
        /\ Cardinality(Enabled(STREAMS)) < MAX_STREAMS)
       => LET parts == Parts(Last(dispatched').line)
              e == LowestDisabled(STREAMS)
          IN  /\ PrintsOne
              /\ IsOk(Last(out'), "STREAM")
              /\ Last(out').entry = e
              /\ STREAMS'[e] = [addr |-> parse_addr(parts[2]).val,
                                size |-> parse_u32(parts[3]).val,
                                rate_hz |-> parse_u32(parts[4]).val,
                                last_sample_ms |-> 0,
                                enabled |-> TRUE]
              /\ \A i \in StreamIndex \ {e} : STREAMS'[i] = STREAMS[i]]_vars

\* An entry that was sampled after tick 0 and then removed has been filled
\* again, by a stream with another address, and not been sampled since.
C25_Witness ==
    \E p, q, r \in DOMAIN out :
        /\ p < q /\ q < r
        /\ IsSample(out[p]) /\ out[p].ts > 0
        /\ IsOk(out[q], "STOP") /\ out[q].entry = out[p].entry
        /\ IsOk(out[r], "STREAM") /\ out[r].entry = out[p].entry
        /\ out[r].addr # out[q].addr
        /\ r = Len(out)
        /\ STREAMS[out[r].entry].last_sample_ms = 0
        /\ STREAMS[out[r].entry].addr = out[r].addr

(***************************************************************************)
(* C26: a successful remove(addr) disables exactly one entry, the          *)
(* lowest-index entry with enabled = true and that exact address, and      *)
(* leaves every other entry unchanged, any other enabled entry registered  *)
(* with the same address included.                                         *)
(***************************************************************************)
Holders(streams, addr) ==
    {i \in StreamIndex : streams[i].enabled /\ streams[i].addr = addr}

LowestHolder(streams, addr) ==
    CHOOSE i \in Holders(streams, addr) : \A j \in Holders(streams, addr) : i <= j

C26_RemoveDisablesLowestMatchOnly ==
    [][(/\ Dispatches
        /\ IsRemoveCall(Last(dispatched').line)
        /\ Holders(STREAMS, RemoveAddr(Last(dispatched').line)) # {})
       => LET e == LowestHolder(STREAMS, RemoveAddr(Last(dispatched').line))
          IN  /\ PrintsOne
              /\ IsOk(Last(out'), "STOP")
              /\ Last(out').entry = e
              /\ STREAMS'[e] = [STREAMS[e] EXCEPT !.enabled = FALSE]
              /\ \A i \in StreamIndex \ {e} : STREAMS'[i] = STREAMS[i]]_vars

\* A STOP has just disabled an entry while two entries above it hold the same
\* address and stay enabled.
C26_Witness ==
    /\ out # <<>>
    /\ IsOk(Last(out), "STOP")
    /\ ~STREAMS[Last(out).entry].enabled
    /\ STREAMS[Last(out).entry].addr = Last(out).addr
    /\ \E i, j \in StreamIndex :
          /\ Last(out).entry < i /\ i < j
          /\ STREAMS[i].enabled /\ STREAMS[i].addr = Last(out).addr
          /\ STREAMS[j].enabled /\ STREAMS[j].addr = Last(out).addr

(***************************************************************************)
(* C27 as claimed: after a successful remove(addr), an immediately         *)
(* repeated remove(addr) returns "Stream not found", changes no table      *)
(* entry and does not crash, after any preceding sequence of adds and      *)
(* removes.                                                                *)
(***************************************************************************)
\* The step dispatches STOP <addr> right after a STOP of the same address
\* was answered OK.
RepeatsRemove ==
    /\ Dispatches
    /\ IsRemoveCall(Last(dispatched').line)
    /\ dispatched # <<>>
    /\ IsRemoveCall(Last(dispatched).line)
    /\ RemoveAddr(Last(dispatched).line) = RemoveAddr(Last(dispatched').line)
    /\ out # <<>>
    /\ IsOk(Last(out), "STOP")
    /\ Last(out).addr = RemoveAddr(Last(dispatched').line)

AnswersNotFound ==
    /\ PrintsOne
    /\ Last(out').kind = "ERROR"
    /\ Last(out').cmd = "STOP"
    /\ Last(out').msg = "Stream not found"
    /\ STREAMS' = STREAMS

C27_RepeatedRemoveNotFound ==
    [][RepeatsRemove => (AnswersNotFound /\ pc' # "panicked")]_vars

(***************************************************************************)
(* C27 as the code has it: add does not reject an address that is already  *)
(* registered, so the repeated remove(addr) returns "Stream not found" and *)
(* changes nothing exactly when no other enabled entry holds addr; when    *)
(* one does, the repeated remove succeeds and disables the lowest such     *)
(* entry.  It crashes in neither case.                                     *)
(***************************************************************************)
C27_RepeatedRemoveNotFoundUnlessDuplicate ==
    [][RepeatsRemove
       => /\ pc' # "panicked"
          /\ IF Holders(STREAMS, RemoveAddr(Last(dispatched').line)) = {}
             THEN AnswersNotFound
             ELSE /\ PrintsOne
                  /\ IsOk(Last(out'), "STOP")
                  /\ STREAMS' = [STREAMS EXCEPT
                        ![LowestHolder(STREAMS, RemoveAddr(Last(dispatched').line))].enabled
                            = FALSE]]_vars

\* Two STOP lines for one address in a row: the first was answered OK, the
\* second "Stream not found".
C27_Witness ==
    /\ Len(dispatched) >= 2
    /\ Len(out) >= 2
    /\ IsRemoveCall(Last(dispatched).line)
    /\ IsRemoveCall(dispatched[Len(dispatched) - 1].line)
    /\ RemoveAddr(Last(dispatched).line) = RemoveAddr(dispatched[Len(dispatched) - 1].line)
    /\ IsOk(out[Len(out) - 1], "STOP")
    /\ out[Len(out) - 1].addr = RemoveAddr(Last(dispatched).line)
    /\ Last(out).kind = "ERROR"
    /\ Last(out).msg = "Stream not found"

(***************************************************************************)
(* C28: add does not validate the address against the memory window: a     *)
(* STREAM command with an address outside [WINDOW_START, WINDOW_END) is    *)
(* answered OK and occupies a table entry (if one is free); afterwards,    *)
(* each time that entry is due, exactly one ERROR record and no DATA       *)
(* record is printed, and no memory is read for it.                        *)
(***************************************************************************)
OutsideWindow(addr) == U32Lt(addr, WINDOW_START) \/ U32Le(WINDOW_END, addr)

C28_OutsideAddressAcceptedThenErrors ==
    [][/\ (/\ Dispatches
           /\ IsAddCall(Last(dispatched').line)
           /\ OutsideWindow(parse_addr(Parts(Last(dispatched').line)[2]).val)
           /\ Cardinality(Enabled(STREAMS)) < MAX_STREAMS)
          => /\ PrintsOne
             /\ IsOk(Last(out'), "STREAM")
             /\ STREAMS'[Last(out').entry].enabled
             /\ ~STREAMS[Last(out').entry].enabled
             /\ STREAMS'[Last(out').entry].addr
                   = parse_addr(Parts(Last(dispatched').line)[2]).val
       /\ (/\ VisitsEntry
           /\ Due(STREAMS[idx], timestamp_ms)
           /\ OutsideWindow(STREAMS[idx].addr))
          => /\ PrintsOne
             /\ Last(out').kind = "ERROR"
             /\ Last(out').msg = "Out of SRAM range"
             /\ Last(out').entry = idx
             /\ mem_reads' = mem_reads
             /\ pc' # "panicked"]_vars

\* Streams at 0x10, 0x40880000 and 0xfffffffe are registered and each has
\* answered a sample with ERROR; nothing has been read.
C28_Witness ==
    /\ mem_reads = {}
    /\ \A a \in {<<0, 16>>, WINDOW_END, <<65535, 65534>>} :
          \E i \in StreamIndex, k \in DOMAIN out :
             /\ STREAMS[i].enabled
             /\ STREAMS[i].addr = a
             /\ out[k].kind = "ERROR" /\ out[k].msg = "Out of SRAM range"
             /\ out[k].entry = i

(***************************************************************************)
(* C29: the size of a stream is stored as registered and clamped only when *)
(* sampling: for every registered size s (0 and values above 64 included)  *)
(* each DATA record carries exactly min(s, 64) bytes, that is              *)
(* 2 * min(s, 64) lower-case hex characters, and the 128-byte hex buffer   *)
(* is never written past its end.                                          *)
(***************************************************************************)
Min64(s) == IF s[1] = 0 /\ s[2] < 64 THEN s[2] ELSE 64

LowerHex == (48 .. 57) \cup (97 .. 102)

C29_SizeClampedWhenSampling ==
    /\ (out # <<>> /\ IsOk(Last(out), "STREAM") /\ IsAddCall(Last(dispatched).line))
          => STREAMS[Last(out).entry].size = parse_u32(Parts(Last(dispatched).line)[3]).val
    /\ (out # <<>> /\ Last(out).kind = "DATA")
          => /\ Last(out).n = Min64(STREAMS[Last(out).entry].size)
             /\ Cardinality(HexBufWrites(Last(out).n)) = 2 * Min64(STREAMS[Last(out).entry].size)
             /\ \A w \in HexBufWrites(Last(out).n) : w < HEX_BUF_LEN
             /\ \A byte \in 0 .. 255 :
                   /\ HexOfByte(byte)[1] \in LowerHex
                   /\ HexOfByte(byte)[2] \in LowerHex

\* Streams registered with sizes 100 and 0 are stored with these sizes and
\* have printed DATA records of 64 bytes and of no byte.
C29_Witness ==
    \E j, k \in DOMAIN out :
        /\ out[j].kind = "DATA" /\ out[j].n = 64
        /\ STREAMS[out[j].entry].size = <<0, 100>>
        /\ out[k].kind = "DATA" /\ out[k].n = 0
        /\ STREAMS[out[k].entry].size = <<0, 0>>
        /\ STREAMS[out[k].entry].enabled

(***************************************************************************)
(* C30 as claimed: all complete lines available from the UART at a tick    *)
(* are processed within that tick, in arrival order, each one's response   *)
(* printed before the next line is processed; the bytes of a line whose    *)
(* terminator has not arrived stay in the buffer across ticks and are      *)
(* dispatched as one line when the terminator arrives.                     *)
(* The read loop does drain the UART before the sampling pass and answers  *)
(* each line as it completes, but a line of nine tokens stops the firmware *)
(* (C9) with the lines behind it unread, and a line longer than the buffer *)
(* is dispatched in pieces (C8).                                           *)
(***************************************************************************)
C30_AllLinesOfTickProcessed ==
    /\ pc # "drain" => ~Available
    /\ \A k \in DOMAIN dispatched : ~dispatched[k].tail

(***************************************************************************)
(* C31: a blank or all-whitespace line (a line holding only `\r`           *)
(* included) produces no request: process_command prints no response       *)
(* record and changes no table entry, and parse_command returns None       *)
(* exactly for such lines.  Stated for every line of valid UTF-8 that the  *)
(* drain hands to process_command.                                         *)
(***************************************************************************)
Blank(line) == \A i \in 1 .. Len(line) : InWhiteSpace(line, i)

C31_BlankLineIgnored ==
    [][(Dispatches /\ from_utf8_ok(Last(dispatched').line))
       => /\ ~parse_command(Last(dispatched').line).some <=> Blank(Last(dispatched').line)
          /\ Blank(Last(dispatched').line)
                => /\ out' = out
                   /\ STREAMS' = STREAMS
                   /\ pc' = pc]_vars

\* With a stream registered, the lines "\r", "" and " \t \r" have been
\* dispatched and nothing has been printed since the answer to STREAM.
C31_Witness ==
    /\ Len(dispatched) = 4
    /\ dispatched[2].line = <<13>>
    /\ dispatched[3].line = <<>>
    /\ dispatched[4].line = <<32, 9, 32, 13>>
    /\ Len(out) = Len(BootRecords) + 1
    /\ IsOk(Last(out), "STREAM")
    /\ STREAMS[0].enabled

(***************************************************************************)
(* C32: no address passes read_safe because address + size wrapped around  *)
(* modulo 2^32: whenever read_safe succeeds, the sum address + size taken  *)
(* without wrapping is at most RAM_END.                                    *)
(***************************************************************************)
\* address + size without wrapping: the high half may reach 65536.
UnwrappedEnd(ptr, type_id) == U32Plus(ptr, size(type_id))

Wraps(ptr, type_id) == UnwrappedEnd(ptr, type_id)[1] >= 65536

C32_NoWraparoundPass ==
    \A k \in DOMAIN slot_log :
        LET e == slot_log[k]
        IN  /\ e.res.result = "Ok" => U32Le(UnwrappedEnd(e.ptr, e.type_id), RAM_END)
            /\ Wraps(e.ptr, e.type_id) => e.res.result # "Ok" /\ ~e.res.deref

\* Slots at 0xFFFFFFFC (4-byte type) and 0xFFFFFFFF (1-byte type), whose
\* wrapped end is 0, have been read in one cycle and both were refused.
C32_Witness ==
    \E j, k \in DOMAIN slot_log :
        /\ slot_log[j].ptr = <<65535, 65532>>
        /\ size(slot_log[j].type_id) = 4
        /\ U32WrappingAdd(slot_log[j].ptr, 4) = U32Zero
        /\ slot_log[j].res.result = "OutOfBounds"
        /\ slot_log[k].ptr = <<65535, 65535>>
        /\ size(slot_log[k].type_id) = 1
        /\ U32WrappingAdd(slot_log[k].ptr, 1) = U32Zero
        /\ slot_log[k].res.result = "OutOfBounds"

(***************************************************************************)
(* C33 as claimed: LIST is read-only and reports the table: it changes no  *)
(* table entry, and its response enumerates exactly the entries that are   *)
(* enabled at that moment.                                                 *)
(* The LIST arm of process_command prints one VARS record with the         *)
(* addresses of three test variables; it does not look at STREAMS, so the  *)
(* record enumerates no table entry whatever the table holds.              *)
(***************************************************************************)
IsListCall(line) == Tokenised(line) /\ Parts(line) # <<>> /\ Parts(line)[1] = VERB_LIST

\* The table entries a printed record enumerates: a VARS record carries the
\* addresses of TEST_COUNTER, TEST_SENSOR_TEMP and TEST_SENSOR_ACCEL_X and
\* nothing of the table.
EntriesListed(rec) == IF rec.kind = "VARS" THEN {} ELSE {rec.entry}

C33_ListReportsEnabledEntries ==
    [][(Dispatches /\ IsListCall(Last(dispatched').line))
       => /\ STREAMS' = STREAMS
          /\ PrintsOne
          /\ EntriesListed(Last(out')) = Enabled(STREAMS)]_vars

(***************************************************************************)
(* C34: parse_command returns the first whitespace-separated token as the  *)
(* command name and the following tokens, in their order, as args cut to   *)
(* at most MAX_ARGS (4); further tokens are dropped without error, and     *)
(* leading, trailing or repeated white space does not change the result.   *)
(* The line is put together from cli_input.tokens with any padding and     *)
(* separator, so the result may depend on the tokens only.                 *)
(***************************************************************************)
NINE_ARGS ==
    <<HELP_TOKEN, N0_TOKEN, N50_TOKEN, N128_TOKEN, N255_TOKEN, N0_TOKEN, N50_TOKEN,
      N128_TOKEN, N255_TOKEN, ZWSP_TOKEN>>

C34_NameAndFirstArgs ==
    cli_pc = "parsed"
        => LET tokens == cli_input.tokens
           IN  IF tokens = <<>> THEN ~cli_cmd.some
               ELSE /\ cli_cmd.some
                    /\ cli_cmd.name = tokens[1]
                    /\ Len(cli_cmd.args) <= MAX_ARGS
                    /\ cli_cmd.args =
                          SubSeq(tokens, 2, IF Len(tokens) <= MAX_ARGS + 1 THEN Len(tokens)
                                            ELSE MAX_ARGS + 1)

\* A name and nine arguments, led by U+2003, separated by U+00A0 and
\* followed by "\t\r", has been parsed: four arguments were kept.
C34_Witness ==
    /\ cli_pc = "parsed"
    /\ cli_input.tokens = NINE_ARGS
    /\ cli_input.line = CliLine(NINE_ARGS, <<226, 128, 131>>, <<194, 160>>, <<9, 13>>)
    /\ cli_cmd = CommandSome(HELP_TOKEN, <<N0_TOKEN, N50_TOKEN, N128_TOKEN, N255_TOKEN>>)

(***************************************************************************)
(* C35: at every tick the number of enabled entries equals the number of   *)
(* STREAM commands answered OK minus the number of STOP commands answered  *)
(* OK since boot, and lies between 0 and MAX_STREAMS (16); the heartbeat   *)
(* reports that number.                                                    *)
(***************************************************************************)
OkAnswers(cmd) == {k \in DOMAIN out : IsOk(out[k], cmd)}

C35_EnabledCountIsAddsMinusRemoves ==
    /\ Cardinality(Enabled(STREAMS))
          = Cardinality(OkAnswers("STREAM")) - Cardinality(OkAnswers("STOP"))
    /\ Cardinality(Enabled(STREAMS)) \in 0 .. MAX_STREAMS
    /\ count_active_streams(STREAMS) = Cardinality(Enabled(STREAMS))
    /\ (out # <<>> /\ Last(out).kind = "HEARTBEAT")
          => Last(out).n = Cardinality(Enabled(STREAMS))

\* The table is full after sixteen registrations and one removal that was
\* made up for by another registration.
C35_Witness ==
    /\ Cardinality(Enabled(STREAMS)) = MAX_STREAMS
    /\ Cardinality(OkAnswers("STOP")) >= 1
    /\ Cardinality(OkAnswers("STREAM")) > MAX_STREAMS

(***************************************************************************)
(* C36 as claimed: after a buffer overflow the engine resynchronises on    *)
(* line boundaries: the first complete line that begins after the          *)
(* oversized line's terminator is parsed and answered as if no overflow    *)
(* had occurred, and the tick loop keeps sampling and printing heartbeats. *)
(* The buffer is empty after the terminator of an oversized line, so the   *)
(* next line is buffered from its first byte; but the rest of the          *)
(* oversized line is dispatched as a line (C8), and when that rest has     *)
(* nine tokens process_command panics (C9): the line behind it is never    *)
(* read and no tick follows.                                               *)
(***************************************************************************)
Overflowed == \E k \in DOMAIN out : out[k].msg = "Command buffer overflow"

C36_ResyncAfterOverflow ==
    Overflowed
        => /\ pc # "panicked"
           /\ pc # "drain" => ~Available
           /\ (CMD_LEN = 0 /\ ~line_overflowed /\ dispatched # <<>>)
                 => ~Last(dispatched).panic

(***************************************************************************)
(* C37 as claimed: in each streaming cycle of the slot registry every slot *)
(* of STREAM_SLOTS is read exactly once, in index order, and contributes   *)
(* one field (a value, ERR_BOUNDS or ERR_ALIGN) to the cycle's record; an  *)
(* error on one slot neither skips nor alters the read of another slot,    *)
(* reads modify no slot and no firmware variable, and the loop proceeds to *)
(* the next cycle.                                                         *)
(* Every arm of the match goes on to the next slot, but a pointer written  *)
(* while read_safe runs is dereferenced unchecked (C2): the panic or fault *)
(* of that dereference ends the cycle with the remaining slots unread.     *)
(***************************************************************************)
SlotResults == {"Ok", "OutOfBounds", "Misaligned"}

\* The slots read so far in this cycle are slots 0 .. slot_pc - 1, once each
\* and in that order, each with the result its own pointer and type call for.
CycleInOrder(log, position) ==
    /\ position \in 0 .. 4
    /\ Len(log) = position
    /\ \A k \in DOMAIN log :
          /\ log[k].slot = k - 1
          /\ log[k].res.result \in SlotResults
          /\ log[k].res.result = "Ok" <=> Admissible(log[k].ptr, log[k].type_id)

C37_EverySlotReadOncePerCycle ==
    [][/\ CycleInOrder(slot_log', slot_pc')
       /\ slot_phase' # "halted"
       /\ Len(slot_log') = Len(slot_log) + 1
             => /\ SLOTS' = SLOTS
                /\ streamerVars' = streamerVars
                /\ loop_count' = loop_count
                /\ Last(slot_log').read_at = SLOTS[slot_pc].ptr
                /\ Last(slot_log').type_id = SLOTS[slot_pc].type_id
       /\ loop_count' # loop_count
             => /\ Len(slot_log) = 4
                /\ loop_count' = loop_count + 1
                /\ slot_pc' = 0
                /\ slot_log' = <<>>
                /\ SLOTS' = SLOTS]_vars

(***************************************************************************)
(* C38 as claimed: in every reachable state of the input drain             *)
(* 0 <= CMD_LEN <= 256 and no byte is stored at an index >= 256 of         *)
(* CMD_BUFFER; CMD_LEN is 0 right after each dispatched line and after     *)
(* each overflow; and the slice CMD_BUFFER[..CMD_LEN - 1] is formed only   *)
(* when CMD_LEN >= 1.                                                      *)
(* The bounds hold and the slice never underflows, but `CMD_LEN = 0` comes *)
(* after process_command returns: when a line of nine tokens makes it      *)
(* panic (C9) the line has been dispatched and CMD_LEN keeps the length of *)
(* the line, terminator included.                                          *)
(***************************************************************************)
OverflowStep ==
    /\ Len(out') = Len(out) + 1
    /\ Last(out').msg = "Command buffer overflow"

C38_CmdLenWithinBuffer ==
    [][/\ CMD_LEN' \in 0 .. CMD_BUFFER_LEN
       /\ Len(CMD_BUFFER') = CMD_LEN'
       /\ Dispatches
             => /\ CMD_LEN + 1 >= 1
                /\ Len(Last(dispatched').line) = (CMD_LEN + 1) - 1
                /\ CMD_LEN' = 0
       /\ OverflowStep => CMD_LEN = CMD_BUFFER_LEN /\ CMD_LEN' = 0]_vars

(***************************************************************************)
(* C39: at every call of should_sample on an enabled entry                 *)
(* last_sample_ms <= now_ms, so the unsigned subtraction                   *)
(* now_ms - last_sample_ms never underflows, for every interleaving of     *)
(* add, remove and ticks (timestamp_ms only grows).                        *)
(***************************************************************************)
C39_NoUnderflowInShouldSample ==
    /\ \A i \in StreamIndex :
          STREAMS[i].enabled => STREAMS[i].last_sample_ms <= timestamp_ms
    /\ (pc = "sample" /\ idx \in StreamIndex)
          => ~should_sample(STREAMS[IterIndex(idx)], timestamp_ms).underflow

\* should_sample is about to be called on an entry that was sampled at an
\* earlier tick, after a stream has been removed and a stream added.
C39_Witness ==
    /\ pc = "sample"
    /\ idx \in StreamIndex
    /\ STREAMS[idx].enabled
    /\ STREAMS[idx].rate_hz # U32Zero
    /\ STREAMS[idx].last_sample_ms > 0
    /\ STREAMS[idx].last_sample_ms < timestamp_ms
    /\ OkAnswers("STOP") # {}
    /\ \E k \in OkAnswers("STREAM") : \E j \in OkAnswers("STOP") : j < k

====
